---------------------------- MODULE Spec2Model ----------------------------
(***************************************************************************)
(* Model of src/audio/reencode_flac.py: the version policy                 *)
(* (_needs_reencoding) and the bounded-concurrency orchestrator            *)
(* (reencode_flac with _wait_for_processes).                               *)
(*                                                                         *)
(* Text is a sequence of one-character strings.  A version is a record of  *)
(* what packaging.version.Version holds: epoch, release, pre, post, dev    *)
(* and local.                                                              *)
(***************************************************************************)
EXTENDS Integers, Sequences, FiniteSets, TLC

(***************************************************************************)
(* Bounds of the model.                                                    *)
(***************************************************************************)
\* Longest release tuple of a vendor-string version drawn by PolicyInit.
MaxVerLen == 3
\* Number of files the directory walk finds.
MaxFiles == 3
\* Largest concurrency limit passed as n_procs (0 stands for an invalid one).
MaxProcs == 2

(***************************************************************************)
(* Text helpers: str.split() without arguments, str.strip(), str.lower().  *)
(***************************************************************************)
\* The characters c with c.isspace(): the separators of str.split() and the
\* \s of the re module.  The ones that cannot be written as themselves are
\* written by the name of their code point: x09 is the tab, x0a the line
\* feed, x0d the carriage return, xa0 the no-break space, u3000 the
\* ideographic space.
Whitespace ==
    { "x09", "x0a", "x0b", "x0c", "x0d", "x1c", "x1d", "x1e", "x1f", " ",
      "x85", "xa0", "u1680", "u2000", "u2001", "u2002", "u2003", "u2004",
      "u2005", "u2006", "u2007", "u2008", "u2009", "u200a", "u2028", "u2029",
      "u202f", "u205f", "u3000" }

\* F applied to the value of x, with the value computed once.
with(x, F(_)) == CHOOSE y \in { F(v) : v \in {x} } : TRUE

\* min() of a set of numbers that is not empty.
min(S) == CHOOSE a \in S : \A b \in S : a <= b

\* sorted(S) of a set of numbers.
sorted(S) == [k \in 1..Cardinality(S) |->
                 CHOOSE a \in S : Cardinality({ b \in S : b < a }) = k - 1]

\* vendor_string.split(): the maximal runs of non-whitespace characters, each
\* from the place where it starts to the place where it ends.
split(text) ==
    with(text, LAMBDA s :
    LET starts == { i \in 1..Len(s) :
                       s[i] \notin Whitespace /\ (i = 1 \/ s[i - 1] \in Whitespace) }
        ends == { i \in 1..Len(s) :
                     s[i] \notin Whitespace /\ (i = Len(s) \/ s[i + 1] \in Whitespace) }
        first == sorted(starts)
        last == sorted(ends)
    IN  [k \in 1..Cardinality(starts) |-> SubSeq(s, first[k], last[k])])

\* The text without its leading whitespace.
lstrip(text) ==
    with(text, LAMBDA s :
    LET first == { i \in 1..Len(s) : s[i] \notin Whitespace }
    IN  IF first = {} THEN <<>> ELSE SubSeq(s, min(first), Len(s)))

\* The text without its trailing whitespace.
rstrip(text) ==
    with(text, LAMBDA s :
    LET last == { i \in 1..Len(s) :
                     s[i] \notin Whitespace
                     /\ \A j \in (i + 1)..Len(s) : s[j] \in Whitespace }
    IN  IF last = {} THEN <<>> ELSE SubSeq(s, 1, min(last)))

UpperCase ==
    << "A", "B", "C", "D", "E", "F", "G", "H", "I", "J", "K", "L", "M",
       "N", "O", "P", "Q", "R", "S", "T", "U", "V", "W", "X", "Y", "Z" >>
LowerCase ==
    << "a", "b", "c", "d", "e", "f", "g", "h", "i", "j", "k", "l", "m",
       "n", "o", "p", "q", "r", "s", "t", "u", "v", "w", "x", "y", "z" >>

\* The character of a to z and 0 to 9 that re.IGNORECASE takes c for, c itself
\* when there is none: beside A to Z, the long s (u017f) is taken for s, the
\* Kelvin sign (u212a) for k, and the dotted capital I (u0130) and the dotless
\* i (u0131) for i.
fold(c) ==
    IF \E i \in 1..26 : UpperCase[i] = c
    THEN LowerCase[CHOOSE i \in 1..26 : UpperCase[i] = c]
    ELSE IF c = "u017f" THEN "s"
    ELSE IF c = "u212a" THEN "k"
    ELSE IF c \in {"u0130", "u0131"} THEN "i"
    ELSE c

\* c.lower(), for the characters re.IGNORECASE takes for one of a to z and 0
\* to 9: A to Z have a lower case, the Kelvin sign has k, and the dotted
\* capital I has i followed by the combining dot above (u0307); the long s
\* and the dotless i are their own lower case.
lower(c) ==
    IF \E i \in 1..26 : UpperCase[i] = c
    THEN << LowerCase[CHOOSE i \in 1..26 : UpperCase[i] = c] >>
    ELSE IF c = "u212a" THEN << "k" >>
    ELSE IF c = "u0130" THEN << "i", "u0307" >>
    ELSE << c >>

\* s.lower(): the lower case of each character, in order.  at(i) is the
\* place of the lower case of s[i], which the dotted capital I before it
\* shift by one each.
lower_text(text) ==
    with(text, LAMBDA s :
    LET dotted == { i \in 1..Len(s) : Len(lower(s[i])) = 2 }
        at(i) == i + Cardinality({ d \in dotted : d < i })
    IN  IF dotted = {} THEN [j \in 1..Len(s) |-> lower(s[j])[1]]
        ELSE [j \in 1..(Len(s) + Cardinality(dotted)) |->
                 LET i == CHOOSE i \in 1..Len(s) : j \in at(i)..(at(i) + Len(lower(s[i])) - 1)
                 IN  lower(s[i])[j - at(i) + 1]])

\* s[n:]
drop(s, n) == SubSeq(s, n + 1, Len(s))

\* s.startswith(w)
starts_with(s, w) == Len(s) >= Len(w) /\ SubSeq(s, 1, Len(w)) = w

\* The pattern w, made of a to z, matches at the start of s under
\* re.IGNORECASE.
starts_with_fold(s, w) == Len(s) >= Len(w) /\ \A i \in 1..Len(w) : fold(s[i]) = w[i]

(***************************************************************************)
(* packaging.version: Version(text), that is version.parse(text), and the  *)
(* order of versions.  The text is matched against VERSION_PATTERN, with   *)
(* whitespace allowed around it and under re.IGNORECASE; the operators     *)
(* below go through the pattern from left to right, one operator per       *)
(* group, each giving what the group holds and the text left.             *)
(***************************************************************************)
DigitChars == {"0", "1", "2", "3", "4", "5", "6", "7", "8", "9"}

DigitVal(c) ==
    CASE c = "0" -> 0 [] c = "1" -> 1 [] c = "2" -> 2 [] c = "3" -> 3
      [] c = "4" -> 4 [] c = "5" -> 5 [] c = "6" -> 6 [] c = "7" -> 7
      [] c = "8" -> 8 [] c = "9" -> 9

RECURSIVE int_of(_, _)
\* The number a run of decimal digits writes, most significant digit first,
\* added to 10**len(piece) times n; int_of(<<>>, 0) is the int(number or 0)
\* of a number that is absent.
int_of(s, n) == IF s = <<>> THEN n ELSE int_of(Tail(s), 10 * n + DigitVal(Head(s)))

\* sys.get_int_max_str_digits(): the longest run of digits int() converts.
int_max_str_digits == 4300

\* int(s) raises ValueError: s, a run of digits, is longer than the limit.
int_raises(s) == Len(s) > int_max_str_digits

\* int(s) of a run of digits; 0 stands for no value when int(s) raises.
int(s) == IF int_raises(s) THEN 0 ELSE int_of(s, 0)

\* What [0-9]* matches at the start of s.
digits_prefix(text) ==
    with(text, LAMBDA s :
    LET others == { i \in 1..Len(s) : s[i] \notin DigitChars }
    IN  SubSeq(s, 1, IF others = {} THEN Len(s) ELSE min(others) - 1))

\* What [._-]? leaves of s.
after_separator(s) == IF s # <<>> /\ Head(s) \in {".", "_", "-"} THEN Tail(s) ELSE s

RECURSIVE first_word(_, _)
\* The first of the alternatives words that matches at the start of s; <<>>
\* when there is none.
first_word(s, words) ==
    IF words = <<>> THEN <<>>
    ELSE IF starts_with_fold(s, Head(words)) THEN Head(words)
    ELSE first_word(s, Tail(words))

\* The alternatives of pre_l and of post_l, in the order of the pattern.
PreLetters ==
    << <<"a", "l", "p", "h", "a">>, <<"a">>, <<"b", "e", "t", "a">>, <<"b">>,
       <<"p", "r", "e", "v", "i", "e", "w">>, <<"p", "r", "e">>, <<"c">>, <<"r", "c">> >>
PostLetters == << <<"p", "o", "s", "t">>, <<"r", "e", "v">>, <<"r">> >>
DevLetters == << <<"d", "e", "v">> >>

\* _LETTER_NORMALIZATION.get(w, w)
normalize_letter(w) ==
    IF w = <<"a", "l", "p", "h", "a">> THEN <<"a">>
    ELSE IF w = <<"b", "e", "t", "a">> THEN <<"b">>
    ELSE IF w \in { <<"c">>, <<"p", "r", "e">>, <<"p", "r", "e", "v", "i", "e", "w">> }
         THEN <<"r", "c">>
    ELSE IF w \in { <<"r", "e", "v">>, <<"r">> } THEN <<"p", "o", "s", "t">>
    ELSE w

\* _parse_letter_version(letter, number): letter is the text the group of
\* the letter holds and number the run of digits, each empty when the group
\* holds nothing; <<>> stands for None.
_parse_letter_version(letter, number) ==
    IF letter # <<>> THEN << normalize_letter(lower_text(letter)), int(number) >>
    ELSE IF number # <<>> THEN << <<"p", "o", "s", "t">>, int(number) >>
    ELSE <<>>

\* (?:(?P<epoch>[0-9]+)!)?: the digits of the group, none when it does not
\* match.
match_epoch(s) ==
    LET d == digits_prefix(s)
    IN  IF d # <<>> /\ starts_with(drop(s, Len(d)), <<"!">>)
        THEN [epoch |-> d, rest |-> drop(s, Len(d) + 1)]
        ELSE [epoch |-> <<>>, rest |-> s]

RECURSIVE release_tail(_, _)
\* (?:\.[0-9]+)* after the numbers acc.
release_tail(s, acc) ==
    LET d == IF starts_with(s, <<".">>) THEN digits_prefix(Tail(s)) ELSE <<>>
    IN  IF d = <<>> THEN [ok |-> TRUE, release |-> acc, rest |-> s]
        ELSE release_tail(drop(s, Len(d) + 1), Append(acc, d))

\* (?P<release>[0-9]+(?:\.[0-9]+)*): the numbers of release.split("."), as
\* they are written.
match_release(s) ==
    LET d == digits_prefix(s)
    IN  IF d = <<>> THEN [ok |-> FALSE, release |-> <<>>, rest |-> s]
        ELSE release_tail(drop(s, Len(d)), << d >>)

\* A group made of [._-]?, one of letters, [._-]? and [0-9]*: the letter as
\* it is written and the digits, both empty when the group does not match.
match_letter_group(s, letters) ==
    LET u == after_separator(s)
        w == first_word(u, letters)
        t == after_separator(drop(u, Len(w)))
        d == digits_prefix(t)
    IN  IF w = <<>> THEN [letter |-> <<>>, number |-> <<>>, rest |-> s]
        ELSE [letter |-> SubSeq(u, 1, Len(w)), number |-> d, rest |-> drop(t, Len(d))]

\* (?P<pre>[._-]?(?P<pre_l>alpha|a|beta|b|preview|pre|c|rc)[._-]?(?P<pre_n>[0-9]+)?)?
match_pre(s) == match_letter_group(s, PreLetters)

\* (?P<post>(?:-(?P<post_n1>[0-9]+))|(?:[._-]?(?P<post_l>post|rev|r)[._-]?(?P<post_n2>[0-9]+)?))?
match_post(s) ==
    LET d == IF starts_with(s, <<"-">>) THEN digits_prefix(Tail(s)) ELSE <<>>
    IN  IF d # <<>>
        THEN [letter |-> <<>>, number |-> d, rest |-> drop(s, Len(d) + 1)]
        ELSE match_letter_group(s, PostLetters)

\* (?P<dev>[._-]?(?P<dev_l>dev)[._-]?(?P<dev_n>[0-9]+)?)?
match_dev(s) == match_letter_group(s, DevLetters)

\* The characters of [a-z0-9], in the order of their code points.
Alphanumeric ==
    << "0", "1", "2", "3", "4", "5", "6", "7", "8", "9" >> \o LowerCase

\* [a-z0-9] matches c under re.IGNORECASE.
is_alphanumeric(c) == \E i \in 1..36 : Alphanumeric[i] = fold(c)

\* What [a-z0-9]* matches at the start of s.
alphanumeric_prefix(text) ==
    with(text, LAMBDA s :
    LET others == { i \in 1..Len(s) : ~ is_alphanumeric(s[i]) }
    IN  SubSeq(s, 1, IF others = {} THEN Len(s) ELSE min(others) - 1))

RECURSIVE local_tail(_, _)
\* (?:[._-][a-z0-9]+)* after the parts acc.
local_tail(s, acc) ==
    LET p == IF s # <<>> /\ Head(s) \in {".", "_", "-"}
             THEN alphanumeric_prefix(Tail(s)) ELSE <<>>
    IN  IF p = <<>> THEN [local |-> acc, rest |-> s]
        ELSE local_tail(drop(s, Len(p) + 1), Append(acc, p))

\* (?:\+(?P<local>[a-z0-9]+(?:[._-][a-z0-9]+)*))?: the parts of the group, as
\* _local_version_separators.split(local) makes them and as they are
\* written; none when the group does not match.
match_local(s) ==
    LET p == IF starts_with(s, <<"+">>) THEN alphanumeric_prefix(Tail(s)) ELSE <<>>
    IN  IF p = <<>> THEN [local |-> <<>>, rest |-> s]
        ELSE local_tail(drop(s, Len(p) + 1), << p >>)

\* part.isdigit(), for a part [a-z0-9]+ matches.
isdigit(part) == \A i \in 1..Len(part) : part[i] \in DigitChars

\* One part of _parse_local_version: int(part) for a part made of digits,
\* part.lower() otherwise.  n and s are the two places of the pair _cmpkey
\* makes of the part.
local_part(part) ==
    IF isdigit(part)
    THEN [n |-> int(part), s |-> <<>>]
    ELSE [n |-> -1, s |-> lower_text(part)]

\* _parse_local_version on the parts of local; <<>> stands for None.
_parse_local_version(parts) == [i \in 1..Len(parts) |-> local_part(parts[i])]

\* What version.parse gives when it raises InvalidVersion: the text does not
\* match the pattern.
invalid_version ==
    [ok |-> FALSE, exc |-> "InvalidVersion", epoch |-> 0, release |-> <<>>,
     pre |-> <<>>, post |-> <<>>, dev |-> <<>>, local |-> <<>>]

\* What version.parse gives when it raises ValueError: the text matches the
\* pattern and one of its numbers is too long for int().
value_error == [invalid_version EXCEPT !.exc = "ValueError"]

\* version.parse(text): the Version, with ok set and exc "none"; pre, post,
\* dev and local are <<>> where the Version has None.  s is the text without
\* the whitespace around it; e, r, a, p, d and l are what the groups epoch,
\* release, pre, post, dev and local hold, each with the text left after it.
\* The text is matched first; the numbers are then made of the groups by
\* int(), which raises on the ones that are too long.
version_parse(text) ==
    with(rstrip(lstrip(text)), LAMBDA s :
    with(match_epoch(IF starts_with_fold(s, <<"v">>) THEN Tail(s) ELSE s), LAMBDA e :
    with(match_release(e.rest), LAMBDA r :
    with(match_pre(r.rest), LAMBDA a :
    with(match_post(a.rest), LAMBDA p :
    with(match_dev(p.rest), LAMBDA d :
    with(match_local(d.rest), LAMBDA l :
        IF ~ (r.ok /\ l.rest = <<>>) THEN invalid_version
        ELSE IF \E n \in {e.epoch, a.number, p.number, d.number}
                         \cup { r.release[i] : i \in 1..Len(r.release) }
                         \cup { l.local[i] : i \in { j \in 1..Len(l.local) :
                                                      isdigit(l.local[j]) } } :
                   int_raises(n)
             THEN value_error
        ELSE [ok |-> TRUE, exc |-> "none",
              epoch |-> int(e.epoch),
              release |-> [i \in 1..Len(r.release) |-> int(r.release[i])],
              pre |-> _parse_letter_version(a.letter, a.number),
              post |-> _parse_letter_version(p.letter, p.number),
              dev |-> _parse_letter_version(d.letter, d.number),
              local |-> _parse_local_version(l.local)])))))))

RECURSIVE strip_zeros(_)
\* _cmpkey: the release with its trailing zeros dropped.
strip_zeros(r) ==
    IF r # <<>> /\ r[Len(r)] = 0 THEN strip_zeros(SubSeq(r, 1, Len(r) - 1)) ELSE r

RECURSIVE tuple_lt(_, _)
\* Python's comparison a < b of two tuples of integers.
tuple_lt(a, b) ==
    IF a = <<>> THEN b # <<>>
    ELSE IF b = <<>> THEN FALSE
    ELSE IF Head(a) # Head(b) THEN Head(a) < Head(b)
    ELSE tuple_lt(Tail(a), Tail(b))

\* The characters a letter or a part of local can be made of, in the order of
\* their code points: [a-z0-9], the dotless i, the long s and the combining
\* dot above.
Collation == Alphanumeric \o << "u0131", "u017f", "u0307" >>

\* The place of such a character in the order of the code points.
code_rank(c) == CHOOSE i \in 1..Len(Collation) : Collation[i] = c

RECURSIVE str_lt(_, _)
\* Python's comparison a < b of two strings.
str_lt(a, b) ==
    IF a = <<>> THEN b # <<>>
    ELSE IF b = <<>> THEN FALSE
    ELSE IF Head(a) # Head(b) THEN code_rank(Head(a)) < code_rank(Head(b))
    ELSE str_lt(Tail(a), Tail(b))

RECURSIVE local_lt(_, _)
\* Python's comparison a < b of two tuples of pairs (n, s); the tuple of a
\* Version without local, which is below every other, is <<>>.
local_lt(a, b) ==
    IF a = <<>> THEN b # <<>>
    ELSE IF b = <<>> THEN FALSE
    ELSE IF Head(a) # Head(b)
         THEN IF Head(a).n # Head(b).n THEN Head(a).n < Head(b).n
              ELSE str_lt(Head(a).s, Head(b).s)
    ELSE local_lt(Tail(a), Tail(b))

\* The places of pre, post and dev in a key: Infinity, NegativeInfinity, or
\* the pair (letter, number).
Infinity == [inf |-> 1, letter |-> <<>>, n |-> 0]
NegativeInfinity == [inf |-> -1, letter |-> <<>>, n |-> 0]
letter_number(pair) == [inf |-> 0, letter |-> pair[1], n |-> pair[2]]

\* Python's comparison a < b of two such places: a pair is compared by its
\* letter, a string, and then by its number.
place_lt(a, b) ==
    IF a.inf # b.inf THEN a.inf < b.inf
    ELSE IF a.letter # b.letter THEN str_lt(a.letter, b.letter)
    ELSE a.n < b.n

\* _cmpkey(epoch, release, pre, post, dev, local)
_cmpkey(v) ==
    [epoch   |-> v.epoch,
     release |-> strip_zeros(v.release),
     pre     |-> IF v.pre = <<>> /\ v.post = <<>> /\ v.dev # <<>> THEN NegativeInfinity
                 ELSE IF v.pre = <<>> THEN Infinity
                 ELSE letter_number(v.pre),
     post    |-> IF v.post = <<>> THEN NegativeInfinity ELSE letter_number(v.post),
     dev     |-> IF v.dev = <<>> THEN Infinity ELSE letter_number(v.dev),
     local   |-> v.local]

\* Python's comparison a < b of two keys.
key_lt(a, b) ==
    IF a.epoch # b.epoch THEN a.epoch < b.epoch
    ELSE IF a.release # b.release THEN tuple_lt(a.release, b.release)
    ELSE IF a.pre # b.pre THEN place_lt(a.pre, b.pre)
    ELSE IF a.post # b.post THEN place_lt(a.post, b.post)
    ELSE IF a.dev # b.dev THEN place_lt(a.dev, b.dev)
    ELSE local_lt(a.local, b.local)

\* Version.__lt__
version_lt(a, b) ==
    with(_cmpkey(a), LAMBDA self : with(_cmpkey(b), LAMBDA other : key_lt(self, other)))

\* A mutant of version_lt: less-or-equal.
version_lt_or_equal(a, b) ==
    with(_cmpkey(a), LAMBDA self : with(_cmpkey(b), LAMBDA other : ~ key_lt(other, self)))

(***************************************************************************)
(* The literals of the policy.                                             *)
(***************************************************************************)
reference == <<"r", "e", "f", "e", "r", "e", "n", "c", "e">>
libFLAC == <<"l", "i", "b", "F", "L", "A", "C">>

(***************************************************************************)
(* _needs_reencoding(file, flac_version).  read is what                    *)
(* get_flac_vendor_string(file) did: [raised, text].  The call returns a   *)
(* value or raises an exception: [exc, value], exc "none" when it returns. *)
(***************************************************************************)
returning(value) == [exc |-> "none", value |-> value]
raising(exc) == [exc |-> exc, value |-> FALSE]

\* Lines 171-177: version.parse(token) < flac_version under the except
\* clause of line 176, which catches InvalidVersion alone.
compare_or_true(parsed, flac_version) ==
    with(parsed, LAMBDA v :
        IF v.ok THEN returning(version_lt(v, flac_version))
        ELSE IF v.exc = "InvalidVersion" THEN returning(TRUE)
        ELSE raising(v.exc))

\* A mutant of compare_or_true: less-or-equal.
compare_le_or_true(parsed, flac_version) ==
    with(parsed, LAMBDA v :
        IF v.ok THEN returning(version_lt_or_equal(v, flac_version))
        ELSE IF v.exc = "InvalidVersion" THEN returning(TRUE)
        ELSE raising(v.exc))

\* A mutant: a file of the target's own version is re-encoded too.
needs_reencoding_le(read, flac_version) ==
    IF read.raised THEN returning(FALSE)
    ELSE LET vendor_string == split(read.text)
         IN  IF /\ Len(vendor_string) >= 3
                /\ vendor_string[1] = reference
                /\ vendor_string[2] = libFLAC
             THEN compare_le_or_true(version_parse(vendor_string[3]), flac_version)
             ELSE returning(TRUE)

\* A mutant: a file that cannot be read is re-encoded.
needs_reencoding_keep_unreadable(read, flac_version) ==
    IF read.raised THEN returning(TRUE)
    ELSE LET vendor_string == split(read.text)
         IN  IF /\ Len(vendor_string) >= 3
                /\ vendor_string[1] = reference
                /\ vendor_string[2] = libFLAC
             THEN compare_or_true(version_parse(vendor_string[3]), flac_version)
             ELSE returning(TRUE)

\* A mutant of _needs_reencoding: a file with an empty vendor string is left
\* alone.
needs_reencoding_skip_empty(read, flac_version) ==
    IF read.raised \/ read.text = <<>> THEN returning(FALSE)
    ELSE LET vendor_string == split(read.text)
         IN  IF /\ Len(vendor_string) >= 3
                /\ vendor_string[1] = reference
                /\ vendor_string[2] = libFLAC
             THEN compare_or_true(version_parse(vendor_string[3]), flac_version)
             ELSE returning(TRUE)

_needs_reencoding(read, flac_version) ==
    IF read.raised THEN returning(FALSE)
    ELSE LET vendor_string == split(read.text)
         IN  IF /\ Len(vendor_string) >= 3
                /\ vendor_string[1] = reference
                /\ vendor_string[2] = libFLAC
             THEN compare_or_true(version_parse(vendor_string[3]), flac_version)
             ELSE returning(TRUE)

(***************************************************************************)
(* Inputs of a run of reencode_flac.                                       *)
(***************************************************************************)
\* Paths os.walk can yield, in the order it yields them.
Paths == <<"b.flac", "A.FLA", "c.flac", "d.fla", "e.flac">>

txt_flac_1_3_0 == <<"f", "l", "a", "c", " ", "1", ".", "3", ".", "0">>
txt_flac_1_x == <<"f", "l", "a", "c", " ", "1", ".", "x">>
txt_1_2_1 == <<"1", ".", "2", ".", "1">>
txt_1_4 == <<"1", ".", "4">>
txt_1_x == <<"1", ".", "x">>
txt_vendor_lavf == <<"L", "a", "v", "f", "5", "8">>
txt_vendor_1_2_1 ==
    reference \o <<" ">> \o libFLAC \o <<" ">> \o txt_1_2_1 \o <<" ", "2", "0", "0", "7">>
txt_vendor_1_3_0 ==
    reference \o <<" ">> \o libFLAC \o <<" ", "1", ".", "3", ".", "0", " ", "2", "0", "1", "3">>
txt_vendor_11_0 ==
    reference \o <<" ">> \o libFLAC \o <<" ", "1", "1", ".", "0", " ", "2", "0", "3", "0">>

\* A number with one digit more than int() converts.
txt_long_number == [i \in 1..(int_max_str_digits + 1) |-> "1"]
txt_vendor_long == reference \o <<" ">> \o libFLAC \o <<" ">> \o txt_long_number

\* The Version of a release alone: no epoch, no pre, post, dev or local.
stable(r) ==
    [ok |-> TRUE, exc |-> "none", epoch |-> 0, release |-> r, pre |-> <<>>,
     post |-> <<>>, dev |-> <<>>, local |-> <<>>]

\* What subprocess.check_output("flac -v") does: raises, or returns this text.
\* isver tells whether the text ends with a version, and version which one.
FlacVRaises == [raised |-> TRUE, text |-> <<>>, isver |-> FALSE, version |-> invalid_version]
FlacVPrints(text, isver, version) ==
    [raised |-> FALSE, text |-> text, isver |-> isver, version |-> version]

FlacVOutcomes ==
    { FlacVRaises,
      FlacVPrints(txt_flac_1_3_0, TRUE, stable(<<1, 3, 0>>)),
      FlacVPrints(txt_flac_1_x, FALSE, invalid_version) }

\* The min_version argument: None, or a string.  isver tells whether the
\* string is a version, and version which one.
MinVersionNone == [given |-> FALSE, text |-> <<>>, isver |-> FALSE, version |-> invalid_version]
MinVersionStr(text, isver, version) ==
    [given |-> TRUE, text |-> text, isver |-> isver, version |-> version]

MinVersionArgs ==
    { MinVersionNone,
      MinVersionStr(txt_1_2_1, TRUE, stable(<<1, 2, 1>>)),
      MinVersionStr(txt_1_4, TRUE, stable(<<1, 4>>)),
      MinVersionStr(txt_1_x, FALSE, invalid_version),
      MinVersionStr(txt_long_number, FALSE, invalid_version) }

\* What get_flac_vendor_string does on a file: raises, or returns this text:
\* the vendor string of an older libFLAC, of the libFLAC of the executable,
\* of a libFLAC above every target version drawn, of another encoder, or of
\* a libFLAC whose version is too long a number for int().
ReadOutcomes ==
    { [raised |-> TRUE, text |-> <<>>],
      [raised |-> FALSE, text |-> txt_vendor_1_2_1],
      [raised |-> FALSE, text |-> txt_vendor_1_3_0],
      [raised |-> FALSE, text |-> txt_vendor_11_0],
      [raised |-> FALSE, text |-> txt_vendor_lavf],
      [raised |-> FALSE, text |-> txt_vendor_long] }

\* What a file the walk yields is: what get_flac_vendor_string does on it,
\* and whether os.path.getsize gives its size.  A link whose target is not
\* there is listed by os.walk, cannot be opened and has no size.
FilesOnDisk ==
    { [read |-> o, sized |-> TRUE] : o \in ReadOutcomes }
    \cup { [read |-> [raised |-> TRUE, text |-> <<>>], sized |-> FALSE] }

\* Exit statuses of an encoder process.
ExitCodes == {0, 1, -9}

(***************************************************************************)
(* State.                                                                  *)
(***************************************************************************)
VARIABLES
    \* arguments and environment of the run
    lib_path_ok,    \* os.path.isdir(lib_path)
    arg_n_procs,    \* n_procs as passed
    arg_min_version,\* min_version as passed
    force,
    verbose,
    flac_v,         \* outcome of "flac -v"
    found,          \* the FLAC files os.walk yields, in order
    \* locals of reencode_flac
    pc,             \* position of the control thread; "raised" when an
                    \* exception has left reencode_flac
    ret,            \* return value, -1 when there is none
    n_procs,
    min_version,    \* the target version; not ok before it is set
    flac_files,
    skipped,        \* the files reported by "File skipped", in order
    current_file,
    processes,      \* set of indices into procs
    errors,
    \* locals of _wait_for_processes
    polling,        \* inside _wait_for_processes
    to_poll,        \* processes the comprehension has not reached yet
    completed,
    \* the child processes, in launch order, and the order in which they ended
    procs,
    exit_log,
    \* what the file system answers, and what the run has done with it
    size_before,    \* os.path.getsize of each file found that has a size, at line 84
    size_after,     \* os.path.getsize of each file found, at line 109
    warned,         \* the message of line 39 was printed
    walked,         \* os.walk was run
    consulted,      \* the files passed to _needs_reencoding, in order
    file_size,
    new_file_size,
    progress,       \* the calls of print_progress, in order
    report,         \* the lines printed by lines 114-115
    \* the policy function taken alone
    pol_pc,         \* "off", "call", "file", "done" or "raised"
    pol_in,         \* the vendor string, as the tokens and blanks it is made of
    pol_target,     \* the flac_version argument
    pol_out,        \* the value returned
    \* get_flac_vendor_string taken alone
    rd_pc,          \* "off", "open", "loop", "block", "return", "done" or "raised"
    rd_in,          \* what the file is made of
    rd_file,        \* the bytes of the file
    rd_pos,         \* the position of f
    rd_data,
    rd_block_type,
    rd_block_length,
    rd_result,
    rd_exc,         \* the exception raised, "none" when there is none
    rd_out,         \* the value returned
    rd_header_at,   \* the positions at which a block header was read
    \* the size accounting taken alone
    acc_pc,         \* "off", "before", "after" or "done"
    acc_before,     \* the sizes of the files at line 84
    acc_after,      \* the sizes of the same files at line 109
    acc_file_size,
    acc_new_file_size,
    acc_saved,      \* the number printed by line 111
    \* two runs that differ in verbose, compared step by step
    tw_phase,       \* "first": the run with verbose as given; "second": its twin
    tw_saved,       \* the state of the first run before its last step
    tw_target       \* the state of the first run after its last step

engine_vars ==
    << lib_path_ok, arg_n_procs, arg_min_version, force, verbose, flac_v, found,
       pc, ret, n_procs, min_version, flac_files, skipped, current_file, processes,
       errors, polling, to_poll, completed, procs, exit_log, size_before, size_after,
       warned, walked, consulted, file_size, new_file_size, progress, report >>

\* The locals that only the checks, the selection and the report write.
audit_vars == << warned, walked, consulted, file_size, new_file_size, report >>

policy_vars == << pol_pc, pol_in, pol_target, pol_out >>

reader_vars ==
    << rd_pc, rd_in, rd_file, rd_pos, rd_data, rd_block_type, rd_block_length,
       rd_result, rd_exc, rd_out, rd_header_at >>

account_vars ==
    << acc_pc, acc_before, acc_after, acc_file_size, acc_new_file_size, acc_saved >>

twin_vars == << tw_phase, tw_saved, tw_target >>

\* The variables of the functions taken alone, but the policy, and of the
\* comparison of two runs.
alone_vars == << reader_vars, account_vars, twin_vars >>

vars == << engine_vars, policy_vars, reader_vars, account_vars, twin_vars >>

Range(s) == { s[i] : i \in 1..Len(s) }

\* shlex.split('flac --best --verify --force --decode-through-errors')
flac_command == <<"flac", "--best", "--verify", "--force", "--decode-through-errors">>

(***************************************************************************)
(* reencode_flac, lines 33-68: checks of the inputs.                       *)
(***************************************************************************)
\* The n_procs the run falls back to.
DefaultProcs == 4

\* A mutant of effective_n_procs: the check of line 37 is left out.
effective_n_procs_unchecked(n) == n

\* n_procs after the check of lines 37-39.
effective_n_procs(n) == IF n < 1 THEN DefaultProcs ELSE n

\* Lines 42-52: version.parse(check_output("flac -v").decode().split()[-1]);
\* ok is FALSE when one of the two except clauses is taken: the one of line
\* 49 catches every exception.
live_version(outcome) ==
    IF outcome.raised THEN invalid_version
    ELSE LET words == split(outcome.text)
         IN  IF words = <<>> THEN invalid_version
             ELSE version_parse(words[Len(words)])

\* Lines 55-66: the target version.  ok is FALSE when the run stops here: it
\* returns 1, or, with exc "ValueError", the exception version.parse raises
\* at line 59 leaves reencode_flac, as line 60 catches InvalidVersion alone.
target_version(arg, flac_version) ==
    IF ~ arg.given THEN flac_version
    ELSE LET v == version_parse(arg.text)
         IN  IF ~ v.ok THEN v
             ELSE IF version_lt(flac_version, v)
                  THEN invalid_version
                  ELSE v

\* A mutant of after_checks: the "return 1" of a failed check is left out.
after_checks_no_return(ok) == "walk"

\* Lines 36, 48, 52, 62, 66: a failed check returns; otherwise the run goes on
\* to the walk of line 74.
after_checks(ok) == IF ok THEN "walk" ELSE "done"

\* The exception exc leaves reencode_flac: the run ends without a return
\* value.
Propagate(exc) == pc' = "raised" /\ ret' = ret

Setup ==
    /\ pc = "start"
    /\ IF ~ lib_path_ok
       THEN /\ pc' = after_checks(FALSE) /\ ret' = 1
            /\ UNCHANGED << n_procs, min_version, warned >>
       ELSE /\ n_procs' = effective_n_procs(arg_n_procs)
            /\ warned' = (arg_n_procs < 1)
            /\ LET live == live_version(flac_v)
                   target == target_version(arg_min_version, live)
               IN  IF live.ok /\ target.ok
                   THEN /\ min_version' = target
                        /\ pc' = after_checks(TRUE) /\ ret' = ret
                   ELSE IF live.ok /\ target.exc = "ValueError"
                   THEN /\ Propagate(target.exc)
                        /\ UNCHANGED min_version
                   ELSE /\ pc' = after_checks(FALSE) /\ ret' = 1
                        /\ UNCHANGED min_version
    /\ UNCHANGED << lib_path_ok, arg_n_procs, arg_min_version, force, verbose, flac_v,
                    found, skipped, flac_files, current_file, processes, errors,
                    polling, to_poll, completed, procs, exit_log, policy_vars, alone_vars, progress,
                    size_before, size_after, walked, consulted, file_size,
                    new_file_size, report >>

(***************************************************************************)
(* reencode_flac, lines 70-92: the walk and the selection of the files.    *)
(***************************************************************************)
\* Lines 80-81: the files kept, in the order of the walk; verdict gives, for
\* each file, what _needs_reencoding returns on it.
select_files(files, verdict, forced) ==
    IF forced THEN files
    ELSE LET keep(f) == verdict[f].value
         IN  SelectSeq(files, keep)

\* A mutant of files_consulted: the files are read under force too.
files_consulted_always(files, forced) == files

\* Lines 80-81: the files _needs_reencoding is called on.
files_consulted(files, forced) == IF forced THEN <<>> ELSE files

RECURSIVE sum_sizes(_, _)
\* sum(os.path.getsize(file) for file in flac_files); size gives the size of
\* each file.
sum_sizes(files, size) ==
    IF files = <<>> THEN 0 ELSE size[Head(files)] + sum_sizes(Tail(files), size)

\* A mutant of megabytes: the quotient is rounded up by adding one.
megabytes_plus_one(total) == total \div (1000 * 1000) + 1

\* A mutant of megabytes: the total is left in bytes.
megabytes_as_bytes(total) == total

\* Lines 84 and 109: int(total/(1000**2)), for a total that is not negative.
megabytes(total) == total \div (1000 * 1000)

\* Line 111: the number printed before " MB saved!".
saved(before, after) == before - after

\* Lines 74-92: the walk, the selection and the size of the files selected.
\* Every file is some file on disk md, read only when force is not set;
\* outcome gives what _needs_reencoding does on each content.  The
\* comprehension of line 81 calls _needs_reencoding on the files in turn, up
\* to the first call that raises: its exception leaves reencode_flac, and the
\* list of line 81 is not made.  Line 84 then asks for the size of every file
\* selected: on a file that has none os.path.getsize raises
\* FileNotFoundError, which leaves reencode_flac as well.
Select ==
    /\ pc = "walk"
    /\ walked' = TRUE
    /\ \E outcome \in { { [content |-> o, call |-> _needs_reencoding(o, min_version)] :
                            o \in ReadOutcomes } } :
       \E md \in [Range(found) -> FilesOnDisk] :
          LET verdict == [f \in Range(found) |->
                             (CHOOSE t \in outcome : t.content = md[f].read).call]
              asked == files_consulted(found, force)
              stops == { i \in 1..Len(asked) : verdict[asked[i]].exc # "none" }
              called == IF stops = {} THEN asked ELSE SubSeq(asked, 1, min(stops))
              raises(f) == md[f].read.raised
              selected == select_files(found, verdict, force)
          IN  /\ consulted' = called
              /\ skipped' = SelectSeq(called, raises)
              /\ IF stops # {}
                 THEN /\ flac_files' = flac_files
                      /\ Propagate(verdict[asked[min(stops)]].exc)
                 ELSE /\ flac_files' = selected
                      /\ IF \A i \in 1..Len(selected) : md[selected[i]].sized
                         THEN pc' = "dispatch" /\ ret' = ret
                         ELSE Propagate("FileNotFoundError")
    /\ file_size' = IF pc' = "raised" THEN file_size
                    ELSE megabytes(sum_sizes(flac_files', size_before))
    /\ processes' = {}
    /\ errors' = <<>>
    /\ current_file' = 0
    /\ UNCHANGED << lib_path_ok, arg_n_procs, arg_min_version, force, verbose, flac_v,
                    found, n_procs, min_version, polling, to_poll,
                    completed, procs, exit_log, policy_vars, alone_vars, progress,
                    size_before, size_after, warned, new_file_size, report >>

(***************************************************************************)
(* reencode_flac, lines 94-105: the dispatch loop and the drain loop.      *)
(***************************************************************************)
\* A mutant of loop_file: every iteration works on the first file.
loop_file_first(files, k) == files[1]

\* A mutant of loop_file: the list is taken from its end.
loop_file_reversed(files, k) == files[Len(files) + 1 - k]

\* The file the k-th iteration of "for file in flac_files" works on.
loop_file(files, k) == files[k]

\* A mutant of popen_args: the path is put first.
popen_args_path_first(file) == <<file>> \o flac_command

\* Line 97: the command line of the encoder process of a file.
popen_args(file) == flac_command \o <<file>>

\* Line 93: where the output of a child goes.
child_output(v) == IF v THEN "inherit" ELSE "DEVNULL"

\* A mutant of at_capacity: one process more is let in.
at_capacity_off_by_one(running, limit) == Cardinality(running) > limit

\* Line 98: the test of the throttle loop.
at_capacity(running, limit) == Cardinality(running) >= limit

\* A mutant of drain_pending: the last process is not waited for.
drain_pending_but_one(running) == Cardinality(running) > 1

\* Line 102: the test of the drain loop.
drain_pending(running) == Cardinality(running) > 0

\* A mutant of progress_call: the call is made after the Popen call.
progress_call_after_launch(current, total, final, launched) ==
    [current |-> current, total |-> total, final |-> final,
     launched |-> IF final THEN launched ELSE launched + 1]

\* Lines 96 and 105: a call print_progress(msg, current, total, final=final);
\* launched is the number of Popen calls made before it.
progress_call(current, total, final, launched) ==
    [current |-> current, total |-> total, final |-> final, launched |-> launched]

\* Lines 94-97: one iteration of the for loop up to the Popen call.
Dispatch ==
    /\ pc = "dispatch"
    /\ current_file < Len(flac_files)
    /\ current_file' = current_file + 1
    /\ progress' = Append(progress,
                          progress_call(current_file', Len(flac_files), FALSE, Len(procs)))
    /\ LET file == loop_file(flac_files, current_file + 1)
           p == [args |-> popen_args(file), output |-> child_output(verbose),
                 exited |-> FALSE, returncode |-> 0]
       IN  /\ procs' = Append(procs, p)
           /\ processes' = processes \cup {Len(procs) + 1}
    /\ pc' = "throttle"
    /\ UNCHANGED << lib_path_ok, arg_n_procs, arg_min_version, force, verbose, flac_v,
                    found, skipped, ret, n_procs, min_version, flac_files, errors,
                    polling, to_poll, completed, exit_log, policy_vars, alone_vars,
                    size_before, size_after, audit_vars >>

\* Line 94: the list is exhausted.
DispatchEnd ==
    /\ pc = "dispatch"
    /\ current_file >= Len(flac_files)
    /\ pc' = "drain"
    /\ UNCHANGED << lib_path_ok, arg_n_procs, arg_min_version, force, verbose, flac_v,
                    found, skipped, ret, n_procs, min_version, flac_files, current_file,
                    processes, errors, polling, to_poll, completed, procs, exit_log,
                    policy_vars, alone_vars, progress,
                    size_before, size_after, audit_vars >>

\* Entry of _wait_for_processes (line 185: the comprehension starts).
EnterWait ==
    /\ polling' = TRUE
    /\ to_poll' = processes
    /\ completed' = <<>>

\* Line 98: the test of "while len(processes) >= n_procs".
Throttle ==
    /\ pc = "throttle"
    /\ ~ polling
    /\ IF at_capacity(processes, n_procs)
       THEN EnterWait /\ pc' = pc
       ELSE pc' = "dispatch" /\ UNCHANGED << polling, to_poll, completed >>
    /\ UNCHANGED << lib_path_ok, arg_n_procs, arg_min_version, force, verbose, flac_v,
                    found, skipped, ret, n_procs, min_version, flac_files, current_file,
                    processes, errors, procs, exit_log, policy_vars, alone_vars, progress,
                    size_before, size_after, audit_vars >>

\* Line 102: the test of "while len(processes) > 0".
Drain ==
    /\ pc = "drain"
    /\ ~ polling
    /\ IF drain_pending(processes)
       THEN EnterWait /\ pc' = pc
       ELSE pc' = "final" /\ UNCHANGED << polling, to_poll, completed >>
    /\ UNCHANGED << lib_path_ok, arg_n_procs, arg_min_version, force, verbose, flac_v,
                    found, skipped, ret, n_procs, min_version, flac_files, current_file,
                    processes, errors, procs, exit_log, policy_vars, alone_vars, progress,
                    size_before, size_after, audit_vars >>

(***************************************************************************)
(* _wait_for_processes, lines 182-189.  The call reads the state of the    *)
(* children once per process, at line 185; lines 186-189 work on what it   *)
(* has read and follow the last read at once.                              *)
(***************************************************************************)
\* A mutant of is_failure: only positive statuses count.
is_failure_positive(p) == p.returncode > 0

\* A mutant of is_failure: a failure is seen only when the output of the
\* process is thrown away.
is_failure_when_quiet(p) == p.returncode # 0 /\ p.output = "DEVNULL"

\* Line 188.
is_failure(p) == p.returncode # 0

\* A mutant of error_entry: only the path is kept.
error_entry_path_only(p) == << p.returncode, << p.args[Len(p.args)] >> >>

\* Line 189: the entry added to errors.
error_entry(p) == << p.returncode, p.args >>

RECURSIVE fold_errors_prepend(_, _, _)
\* A mutant of fold_errors: a new entry is put in front of the list.
fold_errors_prepend(errs, done, ps) ==
    IF done = <<>> THEN errs
    ELSE fold_errors_prepend(IF is_failure(ps[Head(done)])
                             THEN << error_entry(ps[Head(done)]) >> \o errs
                             ELSE errs,
                             Tail(done), ps)

RECURSIVE fold_errors(_, _, _)
\* Lines 187-189: errors after the loop over completed.
fold_errors(errs, done, ps) ==
    IF done = <<>> THEN errs
    ELSE fold_errors(IF is_failure(ps[Head(done)])
                     THEN Append(errs, error_entry(ps[Head(done)]))
                     ELSE errs,
                     Tail(done), ps)

\* Line 185: the comprehension reaches p, in the iteration order of the set,
\* and keeps it when p.poll() is not None.  After the last process, lines
\* 186-189: the completed ones leave the set and the failures are recorded.
Poll(p) ==
    /\ polling
    /\ p \in to_poll
    /\ to_poll' = to_poll \ {p}
    /\ LET done == IF procs[p].exited THEN Append(completed, p) ELSE completed
       IN  IF to_poll = {p}
           THEN /\ processes' = processes \ Range(done)
                /\ errors' = fold_errors(errors, done, procs)
                /\ polling' = FALSE
                /\ completed' = <<>>
           ELSE /\ completed' = done
                /\ UNCHANGED << processes, errors, polling >>
    /\ UNCHANGED << lib_path_ok, arg_n_procs, arg_min_version, force, verbose, flac_v,
                    found, skipped, pc, ret, n_procs, min_version, flac_files,
                    current_file, procs, exit_log, policy_vars, alone_vars, progress,
                    size_before, size_after, audit_vars >>

(***************************************************************************)
(* reencode_flac, lines 105-117: the end of the run.                       *)
(***************************************************************************)
\* Lines 105-106: the final progress call.
Final ==
    /\ pc = "final"
    /\ progress' = Append(progress,
                          progress_call(current_file, Len(flac_files), TRUE, Len(procs)))
    /\ pc' = "report"
    /\ UNCHANGED << lib_path_ok, arg_n_procs, arg_min_version, force, verbose, flac_v,
                    found, skipped, ret, n_procs, min_version, flac_files, current_file,
                    processes, errors, polling, to_poll, completed, procs, exit_log,
                    policy_vars, alone_vars,
                    size_before, size_after, audit_vars >>

\* Line 117.
return_value(errs) == 0

\* A mutant of report_line: the whole command line is printed.
report_line_full(e) == << e[1], e[2] >>

\* Line 115: what is printed for an entry of errors: the exit status, and the
\* arguments of the command printed after it, which are the last one alone.
report_line(e) == << e[1], << e[2][Len(e[2])] >> >>

\* Lines 108-117: the sizes are taken again, the report is printed and the
\* run returns.
Report ==
    /\ pc = "report"
    /\ new_file_size' = megabytes(sum_sizes(flac_files, size_after))
    /\ report' = [i \in 1..Len(errors) |-> report_line(errors[i])]
    /\ pc' = "done"
    /\ ret' = return_value(errors)
    /\ UNCHANGED << lib_path_ok, arg_n_procs, arg_min_version, force, verbose, flac_v,
                    found, skipped, n_procs, min_version, flac_files, current_file,
                    processes, errors, polling, to_poll, completed, procs, exit_log,
                    policy_vars, alone_vars, progress, size_before, size_after,
                    warned, walked, consulted, file_size >>

(***************************************************************************)
(* The environment: an encoder process ends with some exit status.         *)
(***************************************************************************)
ChildExit(p, code) ==
    /\ p \in 1..Len(procs)
    /\ ~ procs[p].exited
    /\ procs' = [procs EXCEPT ![p].exited = TRUE, ![p].returncode = code]
    /\ exit_log' = Append(exit_log, p)
    /\ UNCHANGED << lib_path_ok, arg_n_procs, arg_min_version, force, verbose, flac_v,
                    found, skipped, pc, ret, n_procs, min_version, flac_files,
                    current_file, processes, errors, polling, to_poll, completed,
                    policy_vars, alone_vars, progress,
                    size_before, size_after, audit_vars >>

(***************************************************************************)
(* The run as a whole.                                                     *)
(***************************************************************************)
TwinOff ==
    /\ tw_phase = "off"
    /\ tw_saved = <<>>
    /\ tw_target = <<>>

PolicyOff ==
    /\ pol_pc = "off"
    /\ pol_in = [tokens |-> <<>>, sep |-> <<>>, lead |-> <<>>]
    /\ pol_target = invalid_version
    /\ pol_out = FALSE

ReaderOff ==
    /\ rd_pc = "off"
    /\ rd_in = [readable |-> FALSE, magic |-> <<>>, blocks |-> <<>>,
                flagged |-> FALSE, tail |-> <<>>, cut |-> 0]
    /\ rd_file = <<>>
    /\ rd_pos = 0
    /\ rd_data = <<>>
    /\ rd_block_type = 0
    /\ rd_block_length = 0
    /\ rd_result = <<>>
    /\ rd_exc = "none"
    /\ rd_out = <<>>
    /\ rd_header_at = <<>>

AccountOff ==
    /\ acc_pc = "off"
    /\ acc_before = <<>>
    /\ acc_after = <<>>
    /\ acc_file_size = 0
    /\ acc_new_file_size = 0
    /\ acc_saved = 0

\* The start of a run of reencode_flac.
RunInit ==
    /\ lib_path_ok \in BOOLEAN
    /\ arg_n_procs \in 0..MaxProcs
    /\ arg_min_version \in MinVersionArgs
    /\ force \in BOOLEAN
    /\ verbose \in BOOLEAN
    /\ flac_v \in FlacVOutcomes
    /\ \E n \in 0..MaxFiles :
          found = [i \in 1..n |-> Paths[i]]
    /\ pc = "start"
    /\ ret = -1
    /\ n_procs = arg_n_procs
    /\ min_version = invalid_version
    /\ flac_files = <<>>
    /\ skipped = <<>>
    /\ current_file = 0
    /\ processes = {}
    /\ errors = <<>>
    /\ polling = FALSE
    /\ to_poll = {}
    /\ completed = <<>>
    /\ procs = <<>>
    /\ exit_log = <<>>
    /\ size_before = [f \in Range(found) |-> 1500 * 1000]
    /\ size_after = [f \in Range(found) |-> 1200 * 1000]
    /\ warned = FALSE
    /\ walked = FALSE
    /\ consulted = <<>>
    /\ file_size = 0
    /\ new_file_size = 0
    /\ progress = <<>>
    /\ report = <<>>
    /\ PolicyOff
    /\ ReaderOff
    /\ AccountOff

\* The runs taken one at a time have verbose unset, the default of line 22;
\* TwinSpec sets them against the runs that have it set.
Init == RunInit /\ ~ verbose /\ TwinOff

\* The steps of the control thread.
Control ==
    \/ Setup
    \/ Select
    \/ Dispatch
    \/ DispatchEnd
    \/ Throttle
    \/ Drain
    \/ \E p \in to_poll : Poll(p)
    \/ Final
    \/ Report

\* The steps of the encoder processes.
Children == \E p \in 1..Len(procs) : \E code \in ExitCodes : ChildExit(p, code)

Next == Control \/ Children

Spec == Init /\ [][Next]_vars

(***************************************************************************)
(* _needs_reencoding taken alone: a vendor string is put together from     *)
(* tokens and blanks, and the function is applied to its text.             *)
(***************************************************************************)
\* Longest release tuple of a target version drawn by PolicyInit.
MaxTargetLen == 2

\* Components of the versions drawn; 10 has two digits.
Components == {0, 1, 10}

digit_char(d) ==
    CASE d = 0 -> "0" [] d = 1 -> "1" [] d = 2 -> "2" [] d = 3 -> "3" [] d = 4 -> "4"
      [] d = 5 -> "5" [] d = 6 -> "6" [] d = 7 -> "7" [] d = 8 -> "8" [] d = 9 -> "9"

RECURSIVE format_int(_)
\* str(n) of a natural number.
format_int(n) ==
    IF n < 10 THEN << digit_char(n) >>
    ELSE format_int(n \div 10) \o << digit_char(n % 10) >>

RECURSIVE format_release(_)
\* The dotted text of a release tuple.
format_release(r) ==
    IF Len(r) = 1 THEN format_int(r[1])
    ELSE format_release(SubSeq(r, 1, Len(r) - 1)) \o <<".">> \o format_int(r[Len(r)])

Releases(maxlen) == UNION { [1..k -> Components] : k \in 1..maxlen }

\* A token: its text and, when the text is a version, which one.
Word(chars) == [chars |-> chars, isver |-> FALSE, version |-> invalid_version]
VersionToken(r) == [chars |-> format_release(r), isver |-> TRUE, version |-> stable(r)]

\* Versions that are more than a release, as they can be written: a release
\* candidate, a beta, a post-release, a development release, a version with
\* an epoch and one with a local part.
OtherVersionTokens ==
    { [chars |-> <<"1", ".", "0", "r", "c", "1">>, isver |-> TRUE,
       version |-> [stable(<<1, 0>>) EXCEPT !.pre = << <<"r", "c">>, 1 >>]],
      [chars |-> <<"1", ".", "0", "-", "B", "e", "t", "a">>, isver |-> TRUE,
       version |-> [stable(<<1, 0>>) EXCEPT !.pre = << <<"b">>, 0 >>]],
      [chars |-> <<"1", ".", "0", ".", "p", "o", "s", "t", "1">>, isver |-> TRUE,
       version |-> [stable(<<1, 0>>) EXCEPT !.post = << <<"p", "o", "s", "t">>, 1 >>]],
      [chars |-> <<"1", ".", "0", ".", "d", "e", "v", "0">>, isver |-> TRUE,
       version |-> [stable(<<1, 0>>) EXCEPT !.dev = << <<"d", "e", "v">>, 0 >>]],
      [chars |-> <<"1", "!", "0", ".", "1">>, isver |-> TRUE,
       version |-> [stable(<<0, 1>>) EXCEPT !.epoch = 1]],
      [chars |-> <<"1", ".", "0", "+", "a", "b", "c">>, isver |-> TRUE,
       version |-> [stable(<<1, 0>>)
                       EXCEPT !.local = << [n |-> -1, s |-> <<"a", "b", "c">>] >>]] }

\* The target versions drawn: the releases of up to maxlen components, a
\* release candidate and a post-release.
Targets(maxlen) ==
    { stable(r) : r \in Releases(maxlen) }
    \cup { [stable(<<1, 0>>) EXCEPT !.pre = << <<"r", "c">>, 1 >>],
           [stable(<<1, 0>>) EXCEPT !.post = << <<"p", "o", "s", "t">>, 1 >>] }

FirstTokens == { Word(reference),
                 Word(<<"R", "e", "f", "e", "r", "e", "n", "c", "e">>) }
SecondTokens == { Word(libFLAC), Word(<<"l", "i", "b", "X", "Y", "Z">>) }
\* Versions written with characters re.IGNORECASE takes for letters: a
\* post-release written with the long s, whose letter is kept as written, and
\* a local part made of the Kelvin sign, whose lower case is k.
FoldedVersionTokens ==
    { [chars |-> <<"1", ".", "0", "p", "o", "u017f", "t", "1">>, isver |-> TRUE,
       version |-> [stable(<<1, 0>>) EXCEPT !.post = << <<"p", "o", "u017f", "t">>, 1 >>]],
      [chars |-> <<"1", ".", "0", "+", "u212a">>, isver |-> TRUE,
       version |-> [stable(<<1, 0>>) EXCEPT !.local = << [n |-> -1, s |-> <<"k">>] >>]] }

\* Third tokens: versions, a version with the "v" prefix, texts that are no
\* version, and a number too long for int().
ThirdTokens ==
    { VersionToken(r) : r \in Releases(MaxVerLen) }
    \cup OtherVersionTokens
    \cup FoldedVersionTokens
    \cup { [chars |-> <<"v", "1", ".", "0", "1">>, isver |-> TRUE,
            version |-> stable(<<1, 1>>)] }
    \cup { Word(<<"1", ".", "x">>), Word(<<"1", ".">>), Word(<<".", "1">>),
           Word(<<"1", ".", ".", "0">>), Word(<<"x">>), Word(libFLAC),
           Word(<<"1", ".", "0", "r", "c", "x">>), Word(<<"1", ".", "0", "+">>),
           Word(txt_long_number) }
\* A fourth token, as the date libFLAC adds: a version on its own.
FourthTokens == { VersionToken(<<2007>>) }

TokenLists ==
    { <<>> }
    \cup { <<a>> : a \in FirstTokens }
    \cup { <<a, b>> : a \in FirstTokens, b \in SecondTokens }
    \cup { <<a, b, c>> : a \in FirstTokens, b \in SecondTokens, c \in ThirdTokens }
    \cup { <<a, b, c, d>> : a \in FirstTokens, b \in SecondTokens, c \in ThirdTokens,
                           d \in FourthTokens }

\* What stands between two tokens, and around the vendor string: a space, a
\* tab and a line feed, nothing, a carriage return and a line feed.
Separators == { <<" ">>, <<"x09", "x0a">> }
Margins == { <<>>, <<"x0d", "x0a">> }

RECURSIVE join(_, _)
join(tokens, sep) ==
    IF tokens = <<>> THEN <<>>
    ELSE IF Len(tokens) = 1 THEN tokens[1].chars
    ELSE tokens[1].chars \o sep \o join(Tail(tokens), sep)

\* The text of the vendor string in.
vendor_text(in) == in.lead \o join(in.tokens, in.sep) \o in.lead

EngineOff ==
    /\ lib_path_ok = FALSE
    /\ arg_n_procs = 0
    /\ arg_min_version = MinVersionNone
    /\ force = FALSE
    /\ verbose = FALSE
    /\ flac_v = FlacVRaises
    /\ found = <<>>
    /\ pc = "off"
    /\ ret = -1
    /\ n_procs = 0
    /\ min_version = invalid_version
    /\ flac_files = <<>>
    /\ skipped = <<>>
    /\ current_file = 0
    /\ processes = {}
    /\ errors = <<>>
    /\ polling = FALSE
    /\ to_poll = {}
    /\ completed = <<>>
    /\ procs = <<>>
    /\ exit_log = <<>>
    /\ size_before = <<>>
    /\ size_after = <<>>
    /\ warned = FALSE
    /\ walked = FALSE
    /\ consulted = <<>>
    /\ file_size = 0
    /\ new_file_size = 0
    /\ progress = <<>>
    /\ report = <<>>
    /\ TwinOff

PolicyInit ==
    /\ EngineOff
    /\ ReaderOff
    /\ AccountOff
    /\ pol_pc = "call"
    /\ pol_in \in [tokens : TokenLists, sep : Separators, lead : Margins]
    /\ pol_target \in Targets(MaxTargetLen)
    /\ pol_out = FALSE

\* The call of _needs_reencoding ends with outcome: it returns a value, or an
\* exception leaves it.
Outcome(outcome) ==
    IF outcome.exc = "none"
    THEN pol_pc' = "done" /\ pol_out' = outcome.value
    ELSE pol_pc' = "raised" /\ pol_out' = pol_out

\* One call of _needs_reencoding on a file whose vendor string is pol_in.
Decide ==
    /\ pol_pc = "call"
    /\ Outcome(_needs_reencoding([raised |-> FALSE, text |-> vendor_text(pol_in)],
                                 pol_target))
    /\ UNCHANGED << engine_vars, pol_in, pol_target, alone_vars >>

PolicyNext == Decide

PolicySpec == PolicyInit /\ [][PolicyNext]_vars

(***************************************************************************)
(* Bytes and text.  A byte is a number in 0..255.  The characters of the   *)
(* codes 32 to 126 are themselves; the others are written by the name of   *)
(* their code point, in hexadecimal: x00 to xff, u0100 to uffff, and       *)
(* U00010000 to U0010ffff.                                                 *)
(***************************************************************************)
\* chr(32) to chr(126); the quote, the backslash and the backquote are
\* written by name.
Printable ==
    << " ", "!", "x22", "#", "$", "%", "&", "'", "(", ")", "*", "+",
       ",", "-", ".", "/", "0", "1", "2", "3", "4", "5", "6", "7",
       "8", "9", ":", ";", "<", "=", ">", "?", "@", "A", "B", "C",
       "D", "E", "F", "G", "H", "I", "J", "K", "L", "M", "N", "O",
       "P", "Q", "R", "S", "T", "U", "V", "W", "X", "Y", "Z", "[",
       "x5c", "]", "^", "_", "x60", "a", "b", "c", "d", "e", "f", "g",
       "h", "i", "j", "k", "l", "m", "n", "o", "p", "q", "r", "s",
       "t", "u", "v", "w", "x", "y", "z", "{", "|", "}", "~" >>

HexDigits ==
    << "0", "1", "2", "3", "4", "5", "6", "7", "8", "9", "a", "b", "c", "d", "e", "f" >>

RECURSIVE hex(_, _)
\* n in hexadecimal, on width digits.
hex(n, width) ==
    IF width = 0 THEN "" ELSE hex(n \div 16, width - 1) \o HexDigits[(n % 16) + 1]

\* chr(n): the character of code point n.
chr(n) ==
    IF n \in 32..126 THEN Printable[n - 31]
    ELSE IF n < 256 THEN "x" \o hex(n, 2)
    ELSE IF n < 65536 THEN "u" \o hex(n, 4)
    ELSE "U" \o hex(n, 8)

\* ord(c) of a character below 256.
ord(c) == CHOOSE n \in 0..255 : chr(n) = c

\* b[i] is there and is a continuation byte of UTF-8 between low and high.
continues(b, i, low, high) == i <= Len(b) /\ b[i] \in low..high

\* The six bits a continuation byte carries.
low_bits(byte) == byte - 128

\* The UTF-8 decoder at the start of b, which is not empty: the number of
\* bytes it takes, and the code point they encode; when they encode none (a
\* byte that starts no sequence, a sequence that is cut short or goes on
\* with a byte that cannot follow, an overlong form, a surrogate, a code
\* point above 10ffff), ok is FALSE and the bytes taken are the ones the
\* decoder reports as the error.
utf8_first(b) ==
    LET lead == b[1]
        \* the range of the second byte, narrower after e0, ed, f0 and f4
        low == IF lead = 224 THEN 160 ELSE IF lead = 240 THEN 144 ELSE 128
        high == IF lead = 237 THEN 159 ELSE IF lead = 244 THEN 143 ELSE 191
        size == IF lead < 128 THEN 1
                ELSE IF lead \in 194..223 THEN 2
                ELSE IF lead \in 224..239 THEN 3
                ELSE IF lead \in 240..244 THEN 4
                ELSE 0
        taken == IF size <= 1 \/ ~ continues(b, 2, low, high) THEN 1
                 ELSE IF size = 2 THEN 2
                 ELSE IF ~ continues(b, 3, 128, 191) THEN 2
                 ELSE IF size = 3 THEN 3
                 ELSE IF ~ continues(b, 4, 128, 191) THEN 3
                 ELSE 4
    IN  IF size = 0 \/ taken < size THEN [ok |-> FALSE, taken |-> taken, code |-> 0]
        ELSE [ok |-> TRUE, taken |-> size,
              code |-> IF size = 1 THEN lead
                       ELSE IF size = 2 THEN (lead - 192) * 64 + low_bits(b[2])
                       ELSE IF size = 3
                            THEN (lead - 224) * 4096 + low_bits(b[2]) * 64 + low_bits(b[3])
                       ELSE (lead - 240) * 262144 + low_bits(b[2]) * 4096
                            + low_bits(b[3]) * 64 + low_bits(b[4])]

RECURSIVE decode_ignore(_)
\* b.decode('utf-8', errors="ignore"): the characters the bytes encode, the
\* bytes that encode none being dropped.
decode_ignore(b) ==
    IF b = <<>> THEN <<>>
    ELSE LET first == utf8_first(b)
         IN  (IF first.ok THEN << chr(first.code) >> ELSE <<>>)
             \o decode_ignore(drop(b, first.taken))

RECURSIVE from_bytes_big(_)
\* int.from_bytes(b, byteorder='big')
from_bytes_big(b) ==
    IF b = <<>> THEN 0
    ELSE 256 * from_bytes_big(SubSeq(b, 1, Len(b) - 1)) + b[Len(b)]

RECURSIVE from_bytes_little(_)
\* int.from_bytes(b, byteorder='little')
from_bytes_little(b) ==
    IF b = <<>> THEN 0 ELSE Head(b) + 256 * from_bytes_little(Tail(b))

\* f.read(n) with f at pos: the bytes returned; fewer than n at the end of
\* the file, none past it.
read(file, pos, n) ==
    IF pos >= Len(file) THEN <<>>
    ELSE SubSeq(file, pos + 1, IF pos + n <= Len(file) THEN pos + n ELSE Len(file))

\* A mutant of seek: the position is left where it is.
seek_none(pos, n) == pos

\* f.seek(n, 1): the position after it; it may be past the end of the file.
seek(pos, n) == pos + n

fLaC == <<"f", "L", "a", "C">>

\* A mutant of is_magic: only the first three characters are compared.
is_magic_prefix(text) == Len(text) >= 3 /\ SubSeq(text, 1, 3) = SubSeq(fLaC, 1, 3)

\* Line 132: the test of the identifier.
is_magic(text) == text = fLaC

\* Line 137: the test of the while loop.
loop_goes_on(data, block_type) == data # <<>> /\ block_type < 126

(***************************************************************************)
(* get_flac_vendor_string, lines 120-153.                                  *)
(***************************************************************************)
\* Lines 125-133: the file is opened and the identifier is read.
ReadMagic ==
    /\ rd_pc = "open"
    /\ IF ~ rd_in.readable
       THEN /\ rd_pc' = "raised" /\ rd_exc' = "OSError"
            /\ UNCHANGED << rd_pos, rd_data, rd_result, rd_block_type >>
       ELSE LET data == decode_ignore(read(rd_file, 0, 4))
            IN  /\ rd_result' = <<>>
                /\ rd_block_type' = 0
                /\ rd_data' = data
                /\ rd_pos' = Len(read(rd_file, 0, 4))
                /\ IF is_magic(data)
                   THEN rd_pc' = "loop" /\ rd_exc' = rd_exc
                   ELSE rd_pc' = "raised" /\ rd_exc' = "TypeError"
    /\ UNCHANGED << rd_in, rd_file, rd_block_length, rd_out, rd_header_at,
                    engine_vars, policy_vars, account_vars, twin_vars >>

\* Lines 137-140: the test of the loop, and the header of a block is read.
\* data[0] raises IndexError when the file has no byte left.
ReadHeader ==
    /\ rd_pc = "loop"
    /\ IF loop_goes_on(rd_data, rd_block_type)
       THEN LET data == read(rd_file, rd_pos, 4)
            IN  /\ rd_data' = data
                /\ rd_pos' = rd_pos + Len(data)
                /\ rd_header_at' = Append(rd_header_at, rd_pos)
                /\ IF data = <<>>
                   THEN /\ rd_pc' = "raised" /\ rd_exc' = "IndexError"
                        /\ UNCHANGED << rd_block_type, rd_block_length >>
                   ELSE /\ rd_block_type' = from_bytes_big(<< data[1] >>)
                        /\ rd_block_length' = from_bytes_big(Tail(data))
                        /\ rd_pc' = "block" /\ rd_exc' = rd_exc
       ELSE /\ rd_pc' = "return"
            /\ UNCHANGED << rd_data, rd_pos, rd_header_at, rd_block_type,
                            rd_block_length, rd_exc >>
    /\ UNCHANGED << rd_in, rd_file, rd_result, rd_out,
                    engine_vars, policy_vars, account_vars, twin_vars >>

\* Lines 144-149: the block is a vorbis_comment block; its first field is
\* read and the loop is left.
ReadComment ==
    /\ rd_pc = "block"
    /\ rd_block_type = 4
    /\ LET field == read(rd_file, rd_pos, 4)
           field_length == from_bytes_little(field)
           data == read(rd_file, rd_pos + Len(field), field_length)
       IN  /\ rd_data' = data
           /\ rd_pos' = rd_pos + Len(field) + Len(data)
           /\ rd_result' = decode_ignore(data)
    /\ rd_pc' = "return"
    /\ UNCHANGED << rd_in, rd_file, rd_block_type, rd_block_length, rd_exc, rd_out,
                    rd_header_at, engine_vars, policy_vars, account_vars, twin_vars >>

\* Lines 150-151: any other block is passed over.
SkipBlock ==
    /\ rd_pc = "block"
    /\ rd_block_type # 4
    /\ rd_pos' = seek(rd_pos, rd_block_length)
    /\ rd_pc' = "loop"
    /\ UNCHANGED << rd_in, rd_file, rd_data, rd_block_type, rd_block_length,
                    rd_result, rd_exc, rd_out, rd_header_at,
                    engine_vars, policy_vars, account_vars, twin_vars >>

\* Line 153.
ReadReturn ==
    /\ rd_pc = "return"
    /\ rd_out' = rd_result
    /\ rd_pc' = "done"
    /\ UNCHANGED << rd_in, rd_file, rd_pos, rd_data, rd_block_type, rd_block_length,
                    rd_result, rd_exc, rd_header_at,
                    engine_vars, policy_vars, account_vars, twin_vars >>

(***************************************************************************)
(* get_flac_vendor_string taken alone: a file is put together from an      *)
(* identifier, metadata blocks and what follows them, and the function is  *)
(* run on its bytes.                                                       *)
(***************************************************************************)
\* Largest number of metadata blocks after the STREAMINFO block.
MaxBlocks == 2

RECURSIVE encode(_)
\* text.encode('utf-8'), for characters below 256.
encode(text) ==
    IF text = <<>> THEN <<>>
    ELSE LET n == ord(Head(text))
         IN  (IF n < 128 THEN << n >> ELSE << 192 + (n \div 64), 128 + (n % 64) >>)
             \o encode(Tail(text))

vendor_XYZ ==
    <<"r", "e", "f", "e", "r", "e", "n", "c", "e", " ", "l", "i", "b", "X", "Y", "Z",
      " ", "1", ".", "4", ".", "2">>
\* The vendor string of an older libFLAC, with a tab between its first two
\* words, a no-break space, which takes two bytes, before the version, and a
\* line feed at its end.
vendor_old ==
    reference \o <<"x09">> \o libFLAC \o <<"xa0">> \o txt_1_2_1 \o <<"x0a">>

\* The 4 bytes of a number, least significant byte first.
le32(n) == << n % 256, (n \div 256) % 256, (n \div 65536) % 256, n \div 16777216 >>

\* The 4 bytes of a block header.
header_bytes(type, last, length) ==
    << type + (IF last THEN 128 ELSE 0),
       length \div 65536, (length \div 256) % 256, length % 256 >>

\* The payload of a vorbis_comment block with no comment: the vendor field
\* and the number of comments.
comment_payload(vendor) == le32(Len(encode(vendor))) \o encode(vendor) \o le32(0)

\* A STREAMINFO block: 34 bytes, which here begin like the header and the
\* vendor field of a comment block.
StreamInfoBlock ==
    [type |-> 0, comment |-> FALSE, vendor |-> <<>>,
     payload |-> <<4, 0, 0, 6>> \o le32(2) \o encode(<<"h", "i">>)
                 \o [i \in 1..24 |-> 0]]
\* A PADDING block, longer than one byte can tell.
PaddingBlock ==
    [type |-> 1, comment |-> FALSE, vendor |-> <<>>, payload |-> [i \in 1..258 |-> 0]]
\* A block of the last reserved type, empty.
ReservedBlock ==
    [type |-> 126, comment |-> FALSE, vendor |-> <<>>, payload |-> <<>>]
CommentBlock(vendor) ==
    [type |-> 4, comment |-> TRUE, vendor |-> vendor, payload |-> comment_payload(vendor)]

OtherBlocks ==
    { PaddingBlock, ReservedBlock, CommentBlock(vendor_XYZ), CommentBlock(vendor_old) }

\* The lists of blocks: none, or a STREAMINFO block and up to MaxBlocks others.
BlockLists ==
    { <<>> } \cup
    UNION { { << StreamInfoBlock >> \o rest : rest \in [1..k -> OtherBlocks] }
            : k \in 0..MaxBlocks }

\* The first bytes of the file.
Identifiers ==
    { encode(fLaC),
      encode(<<"f", "L", "a">>),
      encode(<<"f", "L", "a", "c">>),
      encode(<<"O", "g", "g", "S">>),
      <<255>> \o encode(fLaC),
      <<>> }

\* What follows the metadata: nothing, or the start of an audio frame.
Tails == { <<>>, <<255, 248, 201, 24>> }

RECURSIVE blocks_bytes(_, _)
\* The bytes of a list of blocks; flagged tells whether the header of the
\* last one has the last-metadata-block flag.
blocks_bytes(blocks, flagged) ==
    IF blocks = <<>> THEN <<>>
    ELSE LET b == Head(blocks)
         IN  header_bytes(b.type, flagged /\ Len(blocks) = 1, Len(b.payload))
             \o b.payload \o blocks_bytes(Tail(blocks), flagged)

\* The bytes of the file: the last in.cut bytes of the stream are missing.
stream_bytes(in) ==
    LET whole == in.magic \o blocks_bytes(in.blocks, in.flagged) \o in.tail
    IN  SubSeq(whole, 1, Len(whole) - in.cut)

\* The bytes of a block that a truncated file may still hold: none, half of
\* its header, its header, half of the length of the vendor field, and one
\* byte of the vendor text.
Keeps == {0, 2, 4, 6, 9}

\* The numbers of bytes missing at the end of a truncated file: the file ends
\* in some block, of which it holds one of the Keeps.
Cuts(blocks) ==
    LET rest(i) == Len(blocks_bytes(SubSeq(blocks, i, Len(blocks)), TRUE))
    IN  UNION { { rest(i) - k : k \in { j \in Keeps : j < rest(i) } }
                : i \in 1..Len(blocks) }

ReaderInputs ==
    [readable : {TRUE}, magic : Identifiers, blocks : BlockLists,
     flagged : BOOLEAN, tail : Tails, cut : {0}]
    \cup [readable : {FALSE}, magic : {encode(fLaC)}, blocks : {<< StreamInfoBlock >>},
          flagged : {TRUE}, tail : {<<>>}, cut : {0}]
    \cup UNION { [readable : {TRUE}, magic : {encode(fLaC)}, blocks : {bl},
                  flagged : {TRUE}, tail : {<<>>}, cut : Cuts(bl)]
                : bl \in BlockLists }

ReaderInit ==
    /\ EngineOff
    /\ PolicyOff
    /\ AccountOff
    /\ rd_pc = "open"
    /\ rd_in \in ReaderInputs
    /\ rd_file = stream_bytes(rd_in)
    /\ rd_pos = 0
    /\ rd_data = <<>>
    /\ rd_block_type = 0
    /\ rd_block_length = 0
    /\ rd_result = <<>>
    /\ rd_exc = "none"
    /\ rd_out = <<>>
    /\ rd_header_at = <<>>

ReaderNext == ReadMagic \/ ReadHeader \/ ReadComment \/ SkipBlock \/ ReadReturn

ReaderSpec == ReaderInit /\ [][ReaderNext]_vars

(***************************************************************************)
(* _needs_reencoding on a file: get_flac_vendor_string is run on the bytes *)
(* of a file that begins with the identifier, and the policy is applied to *)
(* what it returns or raises, for a target version.                        *)
(***************************************************************************)
FilterInputs == { in \in ReaderInputs : in.readable /\ in.magic = encode(fLaC) }

FilterInit ==
    /\ EngineOff
    /\ AccountOff
    /\ pol_pc = "file"
    /\ pol_in = [tokens |-> <<>>, sep |-> <<>>, lead |-> <<>>]
    /\ pol_target \in Targets(MaxTargetLen)
    /\ pol_out = FALSE
    /\ rd_pc = "open"
    /\ rd_in \in FilterInputs
    /\ rd_file = stream_bytes(rd_in)
    /\ rd_pos = 0
    /\ rd_data = <<>>
    /\ rd_block_type = 0
    /\ rd_block_length = 0
    /\ rd_result = <<>>
    /\ rd_exc = "none"
    /\ rd_out = <<>>
    /\ rd_header_at = <<>>

\* Lines 164-179: get_flac_vendor_string has returned or raised, and
\* _needs_reencoding goes on with its result.
Filter ==
    /\ pol_pc = "file"
    /\ rd_pc \in {"done", "raised"}
    /\ Outcome(_needs_reencoding([raised |-> rd_pc = "raised", text |-> rd_out],
                                 pol_target))
    /\ UNCHANGED << engine_vars, pol_in, pol_target, alone_vars >>

FilterNext == ReaderNext \/ Filter

FilterSpec == FilterInit /\ [][FilterNext]_vars

(***************************************************************************)
(* The size accounting of reencode_flac (lines 84 and 109-111) taken       *)
(* alone: the sizes of the files selected are drawn, before and after the  *)
(* encoding, and the two measures are taken.                               *)
(***************************************************************************)
\* Largest number of files measured.
MaxSized == 2

\* Sizes of a file, in bytes.
SizeChoices == {800, 1000, 1900, 2000, 600 * 1000}

\* The files measured: they are named by their place in the list.
measured(sizes) == [i \in 1..Len(sizes) |-> i]

AccountInit ==
    /\ EngineOff
    /\ PolicyOff
    /\ ReaderOff
    /\ acc_pc = "before"
    /\ \E n \in 0..MaxSized :
          /\ acc_before \in [1..n -> SizeChoices]
          /\ acc_after \in [1..n -> SizeChoices]
    /\ acc_file_size = 0
    /\ acc_new_file_size = 0
    /\ acc_saved = 0

\* Line 84.
Measure ==
    /\ acc_pc = "before"
    /\ acc_file_size' = megabytes(sum_sizes(measured(acc_before), acc_before))
    /\ acc_pc' = "after"
    /\ UNCHANGED << acc_before, acc_after, acc_new_file_size, acc_saved,
                    engine_vars, policy_vars, reader_vars, twin_vars >>

\* Lines 109-111.
Remeasure ==
    /\ acc_pc = "after"
    /\ acc_new_file_size' = megabytes(sum_sizes(measured(acc_after), acc_after))
    /\ acc_saved' = saved(acc_file_size, acc_new_file_size')
    /\ acc_pc' = "done"
    /\ UNCHANGED << acc_before, acc_after, acc_file_size,
                    engine_vars, policy_vars, reader_vars, twin_vars >>

AccountNext == Measure \/ Remeasure

AccountSpec == AccountInit /\ [][AccountNext]_vars

(***************************************************************************)
(* The checks of the inputs over many versions: runs over a directory with *)
(* one file, where the version the executable prints and the min_version   *)
(* argument are drawn from the versions of up to MaxTargetLen components   *)
(* and from texts that are no version.                                     *)
(***************************************************************************)
flac_ == <<"f", "l", "a", "c", " ">>

\* Texts that are no version.
NoVersionTokens ==
    { Word(<<"1", ".", "x">>), Word(<<"1", ".">>), Word(<<"x">>) }

\* Versions that are more than a release: a release candidate and a
\* post-release.
SetupOtherTokens ==
    { [chars |-> <<"1", ".", "0", "r", "c", "1">>, isver |-> TRUE,
       version |-> [stable(<<1, 0>>) EXCEPT !.pre = << <<"r", "c">>, 1 >>]],
      [chars |-> <<"1", ".", "0", "-", "1">>, isver |-> TRUE,
       version |-> [stable(<<1, 0>>) EXCEPT !.post = << <<"p", "o", "s", "t">>, 1 >>]] }

\* The tokens drawn: versions, texts that are no version, and a number too
\* long for int().
SetupTokens ==
    { VersionToken(r) : r \in Releases(MaxTargetLen) }
    \cup SetupOtherTokens \cup NoVersionTokens \cup { Word(txt_long_number) }

\* The executable prints a line: "flac", the token and a line feed.
SetupFlacVOutcomes ==
    { FlacVRaises }
    \cup { FlacVPrints(flac_ \o t.chars \o <<"x0a">>, t.isver, t.version) : t \in SetupTokens }

\* The argument is the token, or a token with blanks around it.
SetupMinVersionArgs ==
    { MinVersionNone }
    \cup { MinVersionStr(t.chars, t.isver, t.version) : t \in SetupTokens }
    \cup { MinVersionStr(<<" ", "1", ".", "0", " ">>, TRUE, stable(<<1, 0>>)) }

SetupInit ==
    /\ lib_path_ok \in BOOLEAN
    /\ arg_n_procs \in -1..MaxProcs
    /\ arg_min_version \in SetupMinVersionArgs
    /\ force \in BOOLEAN
    /\ verbose = FALSE
    /\ flac_v \in SetupFlacVOutcomes
    /\ found = << Paths[1] >>
    /\ pc = "start"
    /\ ret = -1
    /\ n_procs = arg_n_procs
    /\ min_version = invalid_version
    /\ flac_files = <<>>
    /\ skipped = <<>>
    /\ current_file = 0
    /\ processes = {}
    /\ errors = <<>>
    /\ polling = FALSE
    /\ to_poll = {}
    /\ completed = <<>>
    /\ procs = <<>>
    /\ exit_log = <<>>
    /\ size_before = [f \in Range(found) |-> 1500 * 1000]
    /\ size_after = [f \in Range(found) |-> 1200 * 1000]
    /\ warned = FALSE
    /\ walked = FALSE
    /\ consulted = <<>>
    /\ file_size = 0
    /\ new_file_size = 0
    /\ progress = <<>>
    /\ report = <<>>
    /\ TwinOff
    /\ PolicyOff
    /\ ReaderOff
    /\ AccountOff

SetupSpec == SetupInit /\ [][Next]_vars

(***************************************************************************)
(* Fairness: the control thread keeps running, and every encoder process   *)
(* but the first one launched ends.  The first one may run forever.  The   *)
(* runs are the ones that pass the checks of the inputs, with force set:   *)
(* every file found is a candidate.                                        *)
(***************************************************************************)
ChildEnds(p) == \E code \in ExitCodes : ChildExit(p, code)

HangInit ==
    /\ Init
    /\ lib_path_ok
    /\ flac_v = FlacVPrints(txt_flac_1_3_0, TRUE, stable(<<1, 3, 0>>))
    /\ ~ arg_min_version.given
    /\ force
    /\ ~ verbose

HangSpec ==
    /\ HangInit
    /\ [][Next]_vars
    /\ WF_vars(Control)
    /\ \A p \in 2..MaxFiles : WF_vars(ChildEnds(p))

(***************************************************************************)
(* Two runs that differ in verbose only.  The first run takes a step; the  *)
(* second run, which stands in the same state but for verbose and for the  *)
(* output given to the encoder processes, is then asked for a step that    *)
(* leads to the same state again, but for verbose and the outputs.  The    *)
(* runs are the ones that pass the checks of the inputs, over up to        *)
(* MaxTwinFiles files.                                                     *)
(***************************************************************************)
\* Largest number of files in the runs that are compared.
MaxTwinFiles == 2

\* The state of a run.
Snapshot ==
    [lib_path_ok |-> lib_path_ok,
     arg_n_procs |-> arg_n_procs,
     arg_min_version |-> arg_min_version,
     force |-> force,
     verbose |-> verbose,
     flac_v |-> flac_v,
     found |-> found,
     pc |-> pc,
     ret |-> ret,
     n_procs |-> n_procs,
     min_version |-> min_version,
     flac_files |-> flac_files,
     skipped |-> skipped,
     current_file |-> current_file,
     processes |-> processes,
     errors |-> errors,
     polling |-> polling,
     to_poll |-> to_poll,
     completed |-> completed,
     procs |-> procs,
     exit_log |-> exit_log,
     size_before |-> size_before,
     size_after |-> size_after,
     warned |-> warned,
     walked |-> walked,
     consulted |-> consulted,
     file_size |-> file_size,
     new_file_size |-> new_file_size,
     progress |-> progress,
     report |-> report]

\* The run goes on from state r.
Restore(r) ==
    /\ lib_path_ok' = r.lib_path_ok
    /\ arg_n_procs' = r.arg_n_procs
    /\ arg_min_version' = r.arg_min_version
    /\ force' = r.force
    /\ verbose' = r.verbose
    /\ flac_v' = r.flac_v
    /\ found' = r.found
    /\ pc' = r.pc
    /\ ret' = r.ret
    /\ n_procs' = r.n_procs
    /\ min_version' = r.min_version
    /\ flac_files' = r.flac_files
    /\ skipped' = r.skipped
    /\ current_file' = r.current_file
    /\ processes' = r.processes
    /\ errors' = r.errors
    /\ polling' = r.polling
    /\ to_poll' = r.to_poll
    /\ completed' = r.completed
    /\ procs' = r.procs
    /\ exit_log' = r.exit_log
    /\ size_before' = r.size_before
    /\ size_after' = r.size_after
    /\ warned' = r.warned
    /\ walked' = r.walked
    /\ consulted' = r.consulted
    /\ file_size' = r.file_size
    /\ new_file_size' = r.new_file_size
    /\ progress' = r.progress
    /\ report' = r.report

\* The state of the run that differs from r in verbose only: the encoder
\* processes it has launched have the other output.
Twin(r) ==
    [r EXCEPT !.verbose = ~ r.verbose,
              !.procs = [k \in 1..Len(r.procs) |->
                            [r.procs[k] EXCEPT !.output = child_output(~ r.verbose)]]]

\* What a state tells about the run, verbose and the outputs left out.
Semantics(r) ==
    [r EXCEPT !.verbose = FALSE,
              !.procs = [k \in 1..Len(r.procs) |->
                            [r.procs[k] EXCEPT !.output = "any"]]]

TwinInit ==
    /\ RunInit
    /\ lib_path_ok
    /\ flac_v = FlacVPrints(txt_flac_1_3_0, TRUE, stable(<<1, 3, 0>>))
    /\ ~ arg_min_version.given
    /\ Len(found) <= MaxTwinFiles
    /\ tw_phase = "first"
    /\ tw_saved = Snapshot
    /\ tw_target = Snapshot

\* The first run has not yet taken the step that is to be compared.
TwinArmed == tw_phase = "first" /\ Snapshot = tw_saved

\* A step of the first run.
FirstStep == TwinArmed /\ Next

\* The first run has taken a step: the second run is put in the state the
\* first run was in before the step, with the other value of verbose.
ToSecond ==
    /\ tw_phase = "first"
    /\ Snapshot # tw_saved
    /\ tw_target' = Snapshot
    /\ Restore(Twin(tw_saved))
    /\ tw_phase' = "second"
    /\ UNCHANGED << tw_saved, policy_vars, reader_vars, account_vars >>

\* The step of the second run that matches the step of the first: it leads
\* to the state the first run has reached, but for verbose and the outputs.
Mirror == Next /\ Semantics(Snapshot)' = Semantics(tw_target)

\* The first run goes on from the state it has reached.
ToFirst ==
    /\ tw_phase = "second"
    /\ Restore(tw_target)
    /\ tw_saved' = tw_target
    /\ tw_phase' = "first"
    /\ UNCHANGED << tw_target, policy_vars, reader_vars, account_vars >>

TwinNext == FirstStep \/ ToSecond \/ ToFirst

TwinSpec == TwinInit /\ [][TwinNext]_vars

(***************************************************************************)
(* Properties.                                                             *)
(***************************************************************************)
Last(s) == s[Len(s)]

\* The command line reencode_flac is to use for a file.
CommandLine(f) ==
    <<"flac", "--best", "--verify", "--force", "--decode-through-errors", f>>

\* The processes launched for file f.
Launches(f, ps) == { k \in 1..Len(ps) : Last(ps[k].args) = f }

\* The state of the task of file f.
TaskState(f, ps) ==
    IF Launches(f, ps) = {} THEN "Queued"
    ELSE LET k == CHOOSE k \in Launches(f, ps) : TRUE
         IN  IF ~ ps[k].exited THEN "Running"
             ELSE IF ps[k].returncode = 0 THEN "Succeeded" ELSE "Failed"

Running == { k \in 1..Len(procs) : ~ procs[k].exited }
FailedProcs == { k \in 1..Len(procs) : procs[k].exited /\ procs[k].returncode # 0 }

\* The run is past the drain loop.
Drained == pc \in {"final", "report"} \/ (pc = "done" /\ ret = 0)

\* C1: the in-flight set never holds more than n_procs processes, so no more
\* than n_procs encoders run at once, and no process is launched while the set
\* holds n_procs processes.
C1_AtMostNInFlight ==
    /\ [](/\ Cardinality(processes) <= n_procs
          /\ Cardinality(Running) <= n_procs
          /\ Running \subseteq processes)
    /\ [][Cardinality(processes) >= n_procs => Len(procs') = Len(procs)]_vars

C1_Witness ==
    /\ pc = "throttle"
    /\ polling
    /\ Cardinality(Running) = n_procs
    /\ current_file < Len(flac_files)

\* C2: every candidate goes Queued -> Running -> {Succeeded, Failed}: it has
\* no process before its turn and exactly one from then on; a process is
\* running when it is launched, stays in the list, and once it has ended it
\* never changes again; the run returns 0 only when every candidate has been
\* launched and has ended.
C2_LaunchedExactlyOnce ==
    /\ [](\A i \in 1..Len(flac_files) :
             Cardinality(Launches(flac_files[i], procs))
                 = IF i <= current_file THEN 1 ELSE 0)
    /\ [](ret = 0 => \A i \in 1..Len(flac_files) :
                         TaskState(flac_files[i], procs) \in {"Succeeded", "Failed"})
    /\ [][/\ Len(procs') >= Len(procs)
          /\ \A k \in 1..Len(procs) :
                /\ procs'[k].args = procs[k].args
                /\ procs[k].exited => procs'[k] = procs[k]
          /\ \A k \in (Len(procs) + 1)..Len(procs') : ~ procs'[k].exited]_vars

C2_Witness ==
    /\ ret = 0
    /\ Len(flac_files) >= 3
    /\ \E i, j \in 1..Len(flac_files) :
          /\ TaskState(flac_files[i], procs) = "Succeeded"
          /\ TaskState(flac_files[j], procs) = "Failed"

\* C3: once the drain loop is over, the failure list holds exactly one entry
\* for every process that ended with a non-zero status, with that status and
\* the command line of the process, and nothing else.
C3_FailureListExact ==
    Drained =>
        /\ Len(procs) = Len(flac_files)
        /\ Len(errors) = Cardinality(FailedProcs)
        /\ \A k \in 1..Len(procs) :
              LET entries == { i \in 1..Len(errors) :
                                 errors[i][2] = CommandLine(flac_files[k]) }
              IN  IF procs[k].returncode # 0
                  THEN /\ Cardinality(entries) = 1
                       /\ \A i \in entries : errors[i][1] = procs[k].returncode
                  ELSE entries = {}

C3_Witness ==
    /\ Drained
    /\ Len(errors) = 2
    /\ errors[1][1] # errors[2][1]
    /\ \E k \in 1..Len(procs) : procs[k].returncode = 0

\* C4: a failed encoder does not stop the batch: while candidates are left
\* the control thread stays in the dispatch loop, a failure that was folded
\* is in the list, and when the run returns every candidate has been
\* launched once, the ones after a failed one included.
C4_FailureDoesNotHalt ==
    /\ (FailedProcs # {} /\ current_file < Len(flac_files)
            => pc \in {"dispatch", "throttle"})
    /\ \A k \in FailedProcs :
          /\ Cardinality(Launches(Last(procs[k].args), procs)) = 1
          /\ k \notin processes
                => \E i \in 1..Len(errors) :
                      errors[i] = << procs[k].returncode, procs[k].args >>
          /\ ret = 0 => \A j \in (k + 1)..Len(flac_files) :
                            Launches(flac_files[j], procs) # {}

C4_Witness ==
    /\ Len(procs) >= 2
    /\ 1 \in FailedProcs
    /\ Len(errors) = 1
    /\ 2 \in Running

\* C5: when the final progress call and the report are reached, the in-flight
\* set is empty and every launched process has ended and has been folded.
C5_DrainedBeforeReport ==
    Drained =>
        /\ processes = {}
        /\ ~ polling
        /\ Len(procs) = Len(flac_files)
        /\ \A k \in 1..Len(procs) : procs[k].exited
        /\ Len(errors) = Cardinality(FailedProcs)

C5_Witness ==
    /\ pc = "final"
    /\ Len(procs) >= 3
    /\ FailedProcs # {}

\* A candidate has been launched and its outcome folded.
Folded(k) == Len(procs) >= k /\ procs[k].exited /\ k \notin processes

\* C6: when one encoder process never ends, every other candidate is still
\* launched and folded in the end, whatever n_procs is.
C6_HangDoesNotBlockOthers ==
    \A k \in 2..MaxFiles :
        (pc = "dispatch" /\ Len(flac_files) >= k) ~> Folded(k)

\* C7 as stated: the failure list follows the order in which the processes
\* ended.
C7_FailureOrderIsExitOrder ==
    \A i, j \in 1..Len(exit_log) :
        \A a, b \in 1..Len(errors) :
            /\ i < j
            /\ errors[a][2] = procs[exit_log[i]].args
            /\ errors[b][2] = procs[exit_log[j]].args
            => a < b

\* C7 amended: the failure list follows the order of folding.  A step leaves
\* the entries already in the list in place and adds entries only at the end,
\* each for a process that this step takes out of the in-flight set and that
\* had ended with a non-zero status.
C7_FailureOrderIsFoldOrder ==
    [][/\ Len(errors') >= Len(errors)
       /\ \A i \in 1..Len(errors) : errors'[i] = errors[i]
       /\ \A i \in (Len(errors) + 1)..Len(errors') :
             \E p \in processes \ processes' :
                /\ procs[p].exited
                /\ procs[p].returncode # 0
                /\ errors'[i] = << procs[p].returncode, procs[p].args >>]_vars

\* Two failures folded by two different calls, the first while the second
\* process was still running.
C7_Witness ==
    /\ Len(errors) = 2
    /\ \E a, b \in FailedProcs :
          /\ errors[1][2] = procs[a].args
          /\ errors[2][2] = procs[b].args
          /\ a > b

\* C8: the processes are launched in the order of the candidate list.
C8_LaunchOrderIsListOrder ==
    /\ Len(procs) = current_file
    /\ Len(procs) <= Len(flac_files)
    /\ \A k \in 1..Len(procs) : procs[k].args = CommandLine(flac_files[k])

C8_Witness ==
    /\ Len(procs) >= 3
    /\ procs[1].exited
    /\ ~ procs[3].exited

\* The order of releases: component by component, a missing component
\* counting as 0.
Component(r, i) == IF i <= Len(r) THEN r[i] ELSE 0
OlderRelease(v, t) ==
    \E k \in 1..(Len(v) + Len(t)) :
        /\ \A j \in 1..(k - 1) : Component(v, j) = Component(t, j)
        /\ Component(v, k) < Component(t, k)
SameRelease(v, t) ==
    \A j \in 1..(Len(v) + Len(t)) : Component(v, j) = Component(t, j)

\* The stage of a version of some release: a development release of the
\* release itself, then its alphas, betas and release candidates, then the
\* release and its post-releases.
Stage(v) ==
    IF v.pre # <<>>
    THEN IF v.pre[1] = <<"a">> THEN 1 ELSE IF v.pre[1] = <<"b">> THEN 2 ELSE 3
    ELSE IF v.post = <<>> /\ v.dev # <<>> THEN 0
    ELSE 4
\* The number of the alpha, beta or release candidate.
StageNumber(v) == IF v.pre = <<>> THEN 0 ELSE v.pre[2]
\* The post-releases of a version follow it, in the order of their numbers.
PostNumber(v) == IF v.post = <<>> THEN -1 ELSE v.post[2]
\* The development releases of a version precede it, in the order of their
\* numbers; -1 stands for the version itself.
IsDev(v) == v.dev # <<>>
DevNumber(v) == IF v.dev = <<>> THEN -1 ELSE v.dev[2]

\* The order of versions of PEP 440, for two versions of which at most one has
\* a local part: the epoch, then the release, then the stage, then the
\* post-release, then the development release; a version with a local part
\* follows the same version without it.
Older(v, t) ==
    \/ v.epoch < t.epoch
    \/ /\ v.epoch = t.epoch
       /\ \/ OlderRelease(v.release, t.release)
          \/ /\ SameRelease(v.release, t.release)
             /\ \/ Stage(v) < Stage(t)
                \/ /\ Stage(v) = Stage(t)
                   /\ \/ StageNumber(v) < StageNumber(t)
                      \/ /\ StageNumber(v) = StageNumber(t)
                         /\ \/ PostNumber(v) < PostNumber(t)
                            \/ /\ PostNumber(v) = PostNumber(t)
                               /\ \/ IsDev(v) /\ ~ IsDev(t)
                                  \/ /\ IsDev(v) /\ IsDev(t)
                                     /\ DevNumber(v) < DevNumber(t)
                                  \/ /\ DevNumber(v) = DevNumber(t)
                                     /\ v.local = <<>>
                                     /\ t.local # <<>>

\* The vendor string is "reference libFLAC <version> ...".
ReferenceShape(in) ==
    /\ Len(in.tokens) >= 3
    /\ in.tokens[1].chars = reference
    /\ in.tokens[2].chars = libFLAC
    /\ in.tokens[3].isver

\* C9: on a vendor string "reference libFLAC V ..." with a version V,
\* _needs_reencoding returns true exactly when V is older than the target.
C9_TrueIffOlder ==
    pol_pc = "done" /\ ReferenceShape(pol_in)
        => (pol_out <=> Older(pol_in.tokens[3].version, pol_target))

C9_Witness ==
    /\ pol_pc = "done"
    /\ ReferenceShape(pol_in)
    /\ Len(pol_in.tokens) = 4
    /\ Len(pol_in.tokens[3].version.release) > Len(pol_target.release)
    /\ pol_out

\* C10: on a vendor string of any other shape (fewer than three tokens,
\* another first or second token, a third token version.parse makes no
\* version of) the call of _needs_reencoding returns, and returns true.
C10_TrueOnOtherShapes ==
    pol_pc \in {"done", "raised"} /\ ~ ReferenceShape(pol_in)
        => pol_pc = "done" /\ pol_out

\* The bytes of the identifier "fLaC".
MagicBytes == <<102, 76, 97, 67>>

\* The file begins with the identifier.
HasMagic(file) == Len(file) >= 4 /\ \A i \in 1..4 : file[i] = MagicBytes[i]

\* A well-formed stream: the identifier, then metadata blocks of which the
\* last one, and only it, has the last-metadata-block flag.
WellFormed(in) ==
    /\ in.readable
    /\ in.magic = MagicBytes
    /\ in.blocks # <<>>
    /\ in.flagged
    /\ in.cut = 0

\* The places of the comment blocks (low 7 bits of the header equal to 4).
CommentBlocks(in) == { i \in 1..Len(in.blocks) : in.blocks[i].comment }

FirstCommentBlock(in) ==
    CHOOSE i \in CommentBlocks(in) : \A j \in CommentBlocks(in) : i <= j

\* get_flac_vendor_string has returned or raised.
ReaderFinished == rd_pc \in {"done", "raised"}

\* C11: on a well-formed stream with a comment block, get_flac_vendor_string
\* returns the vendor text of the first comment block, wherever it stands and
\* whether or not its header has the last-metadata-block flag.
C11_ReturnsFirstVendor ==
    ReaderFinished /\ WellFormed(rd_in) /\ CommentBlocks(rd_in) # {}
        => /\ rd_pc = "done"
           /\ rd_out = rd_in.blocks[FirstCommentBlock(rd_in)].vendor

\* C12: on a file that does not begin with the 4 bytes of the identifier, a
\* file of fewer than 4 bytes included, get_flac_vendor_string raises the
\* format error, returns nothing and reads no block header.
C12_BadMagicRaises ==
    rd_pc # "off" /\ rd_in.readable /\ ~ HasMagic(rd_file)
        => /\ rd_pc \in {"open", "raised"}
           /\ rd_pc = "raised" => rd_exc = "TypeError"
           /\ rd_header_at = <<>>
           /\ rd_pos <= 4

C12_Witness ==
    /\ rd_pc = "raised"
    /\ rd_exc = "TypeError"
    /\ Len(rd_file) \in 1..3
    /\ SubSeq(rd_file, 1, 3) = SubSeq(MagicBytes, 1, 3)

\* C13: on a well-formed stream with no comment block, get_flac_vendor_string
\* returns the empty string and raises nothing.
C13_NoCommentGivesEmpty ==
    /\ ReaderFinished /\ WellFormed(rd_in) /\ CommentBlocks(rd_in) = {}
           => rd_pc = "done" /\ rd_exc = "none" /\ rd_out = <<>>
    /\ rd_pc \in {"loop", "block", "return"} /\ WellFormed(rd_in)
          /\ CommentBlocks(rd_in) = {}
           => rd_exc = "none" /\ rd_result = <<>>

C13_Witness ==
    /\ rd_pc = "done"
    /\ WellFormed(rd_in)
    /\ CommentBlocks(rd_in) = {}
    /\ Len(rd_in.blocks) = 3
    /\ Len(rd_header_at) = 3
    /\ rd_in.tail # <<>>

RECURSIVE Total(_)
\* The sum of a list of sizes.
Total(sizes) ==
    IF sizes = <<>> THEN 0
    ELSE Total(SubSeq(sizes, 1, Len(sizes) - 1)) + sizes[Len(sizes)]

\* C14 as stated: the savings reported are the sum of the sizes before minus
\* the sum of the sizes after, in bytes.
C14_SavedIsByteDifference ==
    acc_pc = "done" => acc_saved = Total(acc_before) - Total(acc_after)

\* The whole megabytes (of 1000000 bytes) in the sum of a list of sizes, each
\* below one megabyte.
WholeMB(sizes) ==
    CHOOSE m \in 0..Len(sizes) :
        m * 1000000 <= Total(sizes) /\ Total(sizes) < (m + 1) * 1000000

\* C14 amended: the savings reported are the whole megabytes in the sum of
\* the sizes before minus the whole megabytes in the sum of the sizes after,
\* and are not clamped when negative.
C14_SavedIsMegabyteDifference ==
    acc_pc = "done" =>
        acc_saved = WholeMB(acc_before) - WholeMB(acc_after)

C14_Witness ==
    /\ acc_pc = "done"
    /\ Total(acc_before) < Total(acc_after)
    /\ acc_saved < 0

\* The inputs pass the checks of reencode_flac: the directory exists, the
\* executable runs and prints a version, and min_version, when given, is a
\* version that is not above it.
SetupPasses ==
    /\ lib_path_ok
    /\ ~ flac_v.raised
    /\ flac_v.isver
    /\ arg_min_version.given
          => /\ arg_min_version.isver
             /\ ~ Older(flac_v.version, arg_min_version.version)

(***************************************************************************)
(* Fairness: the control thread keeps running and every encoder process    *)
(* ends.  The runs are the ones that pass the checks of the inputs, with   *)
(* force set or not.                                                       *)
(***************************************************************************)
FairInit ==
    /\ Init
    /\ SetupPasses

FairSpec ==
    /\ FairInit
    /\ [][Next]_vars
    /\ WF_vars(Control)
    /\ \A p \in 1..MaxFiles : WF_vars(ChildEnds(p))

\* C15: reencode_flac returns 0 on every run that passes the checks of the
\* inputs, with no candidate or with failed encoders too, and returns 1
\* exactly when a check fails; it returns nothing else, and no run ends
\* without a return value.
C15_ReturnValue ==
    /\ pc # "raised"
    /\ pc = "done" => ret = IF SetupPasses THEN 0 ELSE 1
    /\ pc # "done" => ret = -1
    /\ pc \notin {"start", "done"} => SetupPasses

\* C16: a run that ends with a setup error has not walked the directory, has
\* read no metadata and has launched no encoder.
C16_SetupErrorTouchesNothing ==
    ret = 1 =>
        /\ pc = "done"
        /\ ~ walked
        /\ consulted = <<>>
        /\ skipped = <<>>
        /\ flac_files = <<>>
        /\ procs = <<>>
        /\ processes = {}

C16_Witness ==
    /\ ret = 1
    /\ lib_path_ok
    /\ ~ flac_v.raised
    /\ arg_min_version.given
    /\ Len(found) >= 2

\* C17: with no min_version the target is the version of the executable; a
\* min_version that is no version, or that is above the version of the
\* executable, makes the run return 1; any other min_version is the target.
C17_TargetResolution ==
    pc # "start" /\ lib_path_ok /\ ~ flac_v.raised /\ flac_v.isver =>
        IF ~ arg_min_version.given
        THEN ret # 1 /\ min_version = flac_v.version
        ELSE IF ~ arg_min_version.isver
                \/ Older(flac_v.version, arg_min_version.version)
             THEN ret = 1 /\ pc = "done"
             ELSE ret # 1 /\ min_version = arg_min_version.version

\* C18: an n_procs below 1 is replaced by 4 with a warning and the run goes
\* on; the limit the dispatch loop uses is at least 1.
C18_LimitAtLeastOne ==
    /\ pc # "start" /\ lib_path_ok
          => /\ n_procs = IF arg_n_procs < 1 THEN 4 ELSE arg_n_procs
             /\ warned = (arg_n_procs < 1)
    /\ pc \in {"dispatch", "throttle", "drain"} => n_procs >= 1
    /\ SetupPasses => ret # 1
    /\ ~ lib_path_ok => ~ warned

C18_Witness ==
    /\ arg_n_procs = -1
    /\ warned
    /\ ret = 0
    /\ Len(procs) = 1
    /\ n_procs = 4

\* C19: with force set every file found is a candidate and gets an encoder
\* process, whatever it holds and whether it can be read or not: the run
\* gets to the launches, and _needs_reencoding is called on no file.
C19_ForceTakesAll ==
    /\ force /\ walked
          => /\ flac_files = found /\ consulted = <<>> /\ skipped = <<>>
             /\ pc # "raised"
    /\ force /\ ret = 0
          => \A i \in 1..Len(found) : Cardinality(Launches(found[i], procs)) = 1

\* C20: with force not set, a file whose metadata read raises is reported as
\* skipped, is no candidate and never gets an encoder process, and the run
\* goes on with the other files: the file after it is consulted, and a run
\* in which every call of _needs_reencoding returns consults every file and
\* ends with return value 0.
C20_UnreadableIsSkipped ==
    ~ force /\ walked =>
        /\ pc # "raised" => consulted = found
        /\ \A i \in 1..Len(consulted) :
              /\ consulted[i] = found[i]
              /\ consulted[i] \in Range(skipped) /\ i < Len(found)
                    => Len(consulted) > i
        /\ \A i \in 1..Len(skipped) :
              /\ skipped[i] \in Range(found)
              /\ skipped[i] \notin Range(flac_files)
              /\ Launches(skipped[i], procs) = {}
        /\ pc = "done" => /\ ret = 0
                          /\ \A i \in 1..Len(flac_files) :
                                Cardinality(Launches(flac_files[i], procs)) = 1

C20_Witness ==
    /\ ~ force
    /\ ret = 0
    /\ Len(found) = 3
    /\ skipped = << found[1] >>
    /\ Len(procs) >= 1
    /\ flac_files # <<>>
    /\ Last(procs[Len(procs)].args) = found[3]

(***************************************************************************)
(* Progress reporting (lines 96 and 105).                                  *)
(***************************************************************************)

\* The calls of print_progress made inside the for loop.
LoopCalls == { i \in 1..Len(progress) : ~progress[i].final }

\* The final calls of print_progress.
FinalCalls == { i \in 1..Len(progress) : progress[i].final }

\* C21 as stated: the progress call for task k follows the launch of task
\* k's process, and the final call is made only when the in-flight set is
\* empty.
C21_ProgressFollowsLaunch ==
    /\ \A i \in LoopCalls : progress[i].launched >= progress[i].current
    /\ FinalCalls # {} => processes = {}

\* C21 amended: the progress call for task k is the k-th call, it carries
\* (k, length of the list) and is made after the launches of tasks 1..k-1
\* and before the launch of task k; one final call ends the log, made with
\* the in-flight set empty and every task launched.
C21_ProgressPrecedesLaunch ==
    /\ \A i \in LoopCalls :
          /\ progress[i].current = i
          /\ progress[i].total = Len(flac_files)
          /\ progress[i].launched = i - 1
    /\ Cardinality(LoopCalls) = current_file
    /\ Cardinality(LoopCalls) = Len(procs)
    /\ FinalCalls = (IF pc \in {"report", "done"} /\ walked THEN {Len(progress)} ELSE {})
    /\ \A i \in FinalCalls :
          /\ i = Len(flac_files) + 1
          /\ progress[i].current = Len(flac_files)
          /\ progress[i].total = Len(flac_files)
          /\ progress[i].launched = Len(flac_files)
          /\ processes = {}
          /\ Drained

C21_Witness ==
    /\ pc = "done"
    /\ Len(progress) = MaxFiles + 1
    /\ progress[MaxFiles + 1].final
    /\ Len(errors) > 0

(***************************************************************************)
(* A forced run over a directory without FLAC files.                       *)
(***************************************************************************)

\* C22: with force set and no FLAC file under the directory, no encoder
\* process is ever launched, and the run that passes the checks ends with an
\* empty list of candidates, a size of 0 MB before and after, 0 MB saved, an
\* empty failure list, the one final progress call 0/0, and returns 0.
C22_EmptyForcedRun ==
    (force /\ found = <<>>) =>
        /\ procs = <<>>
        /\ processes = {}
        /\ errors = <<>>
        /\ (pc = "done" /\ SetupPasses) =>
              /\ walked
              /\ flac_files = <<>>
              /\ consulted = <<>>
              /\ file_size = 0
              /\ new_file_size = 0
              /\ saved(file_size, new_file_size) = 0
              /\ progress = << progress_call(0, 0, TRUE, 0) >>
              /\ ret = 0

C22_Witness ==
    /\ force
    /\ found = <<>>
    /\ pc = "done"
    /\ walked
    /\ ret = 0

(***************************************************************************)
(* get_flac_vendor_string on truncated files.                              *)
(***************************************************************************)

\* The place in the file of the header of block i.
BlockOffset(in, i) ==
    Len(in.magic) + Len(blocks_bytes(SubSeq(in.blocks, 1, i - 1), FALSE))

\* The blocks of which the file holds at least one byte.
BlocksBegun(in) ==
    { i \in 1..Len(in.blocks) : Len(stream_bytes(in)) > BlockOffset(in, i) }

\* The file holds the identifier and blocks of types below 126 whose headers
\* have no flag, then ends: at the end of a block, inside a header or inside
\* the payload of a block that is no comment block.
EndsBeforeFlagged(in) ==
    /\ in.readable /\ in.magic = MagicBytes /\ in.tail = <<>>
    /\ in.cut > 0 \/ ~ in.flagged
    /\ \A i \in BlocksBegun(in) :
          /\ i < Len(in.blocks) \/ ~ in.flagged
          /\ in.blocks[i].type < 126
          /\ ~ in.blocks[i].comment

\* The file holds the identifier, whole blocks of types below 126 that are no
\* comment blocks, then the beginning of a comment block whose header has no
\* flag, and ends before the end of its vendor field.
EndsInsideComment(in) ==
    /\ in.readable /\ in.magic = MagicBytes /\ in.tail = <<>>
    /\ CommentBlocks(in) # {}
    /\ LET c == FirstCommentBlock(in)
       IN  /\ c \in BlocksBegun(in)
           /\ c < Len(in.blocks)
           /\ \A i \in 1..(c - 1) : in.blocks[i].type < 126
           /\ Len(stream_bytes(in)) < BlockOffset(in, c) + 8 + Len(encode(in.blocks[c].vendor))

\* The length the vendor field declares, when the result was read from a
\* comment block: the 4 bytes after the last header read.
DeclaredLength == from_bytes_little(read(rd_file, Last(rd_header_at) + 4, 4))

\* C24: on a file that has the identifier and ends before a block with the
\* last-metadata-block flag, or ends inside a comment block before the end of
\* its vendor field, get_flac_vendor_string raises and returns nothing; and
\* when it returns text read from a comment block, the 4 length bytes were
\* there and the text is made of as many bytes as they tell.
C24_TruncationRaises ==
    /\ ReaderFinished /\ (EndsBeforeFlagged(rd_in) \/ EndsInsideComment(rd_in))
          => rd_pc = "raised"
    /\ rd_pc = "done" /\ rd_header_at # <<>> /\ rd_block_type = 4
          => /\ Len(read(rd_file, Last(rd_header_at) + 4, 4)) = 4
             /\ Len(rd_data) = DeclaredLength

(***************************************************************************)
(* The walk of get_flac_vendor_string over the metadata blocks.            *)
(***************************************************************************)

\* The first byte of the k-th header read.
HeaderByte(k) == rd_file[rd_header_at[k] + 1]

\* The last-metadata-block flag and the type of the k-th header read.
HeaderFlag(k) == HeaderByte(k) >= 128
HeaderType(k) == HeaderByte(k) % 128

\* The length the k-th header read declares: 24 bits, most significant first.
HeaderLength(k) ==
    rd_file[rd_header_at[k] + 2] * 65536 + rd_file[rd_header_at[k] + 3] * 256
        + rd_file[rd_header_at[k] + 4]

\* The reader has left the loop without reading a comment block.
WalkEnded ==
    /\ rd_pc \in {"return", "done"}
    /\ rd_header_at # <<>>
    /\ HeaderByte(Len(rd_header_at)) # 4

\* C25: on a well-formed stream, each header read after another one stands
\* as many bytes after the end of that one as its 24-bit length tells; a
\* header is read after another one only if that one has no
\* last-metadata-block flag; and the walk ends, short of a comment block,
\* only at a header that has the flag, whatever the type of the blocks
\* without it.
C25_BlockWalk ==
    WellFormed(rd_in) =>
        /\ \A k \in 1..(Len(rd_header_at) - 1) :
              /\ rd_header_at[k + 1] = rd_header_at[k] + 4 + HeaderLength(k)
              /\ ~ HeaderFlag(k)
        /\ rd_header_at # <<>> => rd_header_at[1] = 4
        /\ WalkEnded => HeaderFlag(Len(rd_header_at))

(***************************************************************************)
(* The selection comes before the encoding.                                *)
(***************************************************************************)

\* C26: every call of _needs_reencoding is made while no encoder process has
\* been launched yet; without force the calls cover every file found, in the
\* order of the walk, before the first launch, and with force there is none;
\* and once a process has been launched no further call is made, up to the
\* return.
C26_SelectionBeforeEncoding ==
    /\ [](procs # <<>> => /\ walked
                          /\ force => consulted = <<>>
                          /\ ~ force => consulted = found)
    /\ [][consulted' # consulted => procs = <<>> /\ procs' = <<>>]_vars
    /\ [][procs # <<>> => consulted' = consulted /\ skipped' = skipped
                          /\ flac_files' = flac_files]_vars

C26_Witness ==
    /\ ~ force
    /\ Len(consulted) = MaxFiles
    /\ Len(flac_files) = 2
    /\ Len(skipped) = 1
    /\ Len(procs) = 2
    /\ pc = "done"

(***************************************************************************)
(* The lines of the final report about the failed encoders.                *)
(***************************************************************************)

\* The run has printed its report.
Reported == pc = "done" /\ walked

\* C27 as stated: the report has one line for each entry of the failure
\* list, in its order, with the exit status and the whole command line of
\* the failed process.
C27_ReportHasCommandLines ==
    /\ ~ Reported => report = <<>>
    /\ Reported =>
          /\ Len(report) = Len(errors)
          /\ \A i \in 1..Len(errors) :
                /\ report[i][1] = errors[i][1]
                /\ report[i][2] = errors[i][2]
                /\ \E f \in Range(flac_files) : report[i][2] = CommandLine(f)

\* C27 amended: the report has one line for each entry of the failure list,
\* in its order, with the exit status and the path of the file alone, which
\* is the last argument of the command line the entry holds.
C27_ReportHasPaths ==
    /\ ~ Reported => report = <<>>
    /\ Reported =>
          /\ Len(report) = Len(errors)
          /\ \A i \in 1..Len(errors) :
                /\ report[i][1] = errors[i][1]
                /\ Len(report[i][2]) = 1
                /\ report[i][2][1] \in Range(flac_files)
                /\ errors[i][2] = CommandLine(report[i][2][1])

C27_Witness ==
    /\ Reported
    /\ Len(report) = 2
    /\ report[1][1] # report[2][1]
    /\ report[1][2] = << Paths[2] >>

(***************************************************************************)
(* Termination, when every encoder process ends.                           *)
(***************************************************************************)

\* A call of _wait_for_processes is under way and is bound to take p out of
\* the in-flight set: p has ended and is still to be polled, or it has been
\* polled and found ended.
Pending(p) ==
    /\ polling
    /\ p \in processes
    /\ \/ p \in to_poll /\ procs[p].exited
       \/ p \in Range(completed)

\* C28: when every encoder process ends, a run that passes the checks leaves
\* the dispatch loop and the drain loop and returns 0, with every candidate
\* launched and the in-flight set empty; and a call of _wait_for_processes
\* made while an in-flight process p has ended polls p, stays bound to take
\* it out until it returns, and returns with p out of the set, which is then
\* strictly smaller than at the call.
C28_EndsWhenChildrenEnd ==
    /\ pc = "start" ~> (/\ pc = "done" /\ ret = 0 /\ ~ polling
                        /\ processes = {} /\ Len(procs) = Len(flac_files)
                        /\ Cardinality(FinalCalls) = 1)
    /\ [][\A p \in processes :
              ~ polling /\ polling' /\ procs[p].exited => Pending(p)']_vars
    /\ [][\A p \in processes :
              Pending(p) => \/ Pending(p)'
                            \/ /\ ~ polling'
                               /\ p \notin processes'
                               /\ processes' \subseteq processes
                               /\ processes' # processes]_vars

(***************************************************************************)
(* The reader and the policy together.                                     *)
(***************************************************************************)

\* C29: on a well-formed stream with no comment block, whatever the target
\* version, get_flac_vendor_string returns the empty string and
\* _needs_reencoding, which goes on with it, returns True: without force the
\* file is a candidate.
C29_NoCommentIsCandidate ==
    pol_pc = "done" /\ WellFormed(rd_in) /\ CommentBlocks(rd_in) = {}
        => /\ rd_pc = "done"
           /\ rd_out = <<>>
           /\ pol_out

C29_Witness ==
    /\ pol_pc = "done"
    /\ WellFormed(rd_in)
    /\ CommentBlocks(rd_in) = {}
    /\ Len(rd_in.blocks) = 2
    /\ pol_target = stable(<<0>>)
    /\ pol_out

(***************************************************************************)
(* The check of min_version under force.                                   *)
(***************************************************************************)

\* The min_version given is no version, or is above the version the
\* executable prints.
BadMinVersion ==
    /\ arg_min_version.given
    /\ ~ arg_min_version.isver \/ Older(flac_v.version, arg_min_version.version)

\* C30: with force set too, a min_version that is no version or that is above
\* the version of the executable makes the run return 1 at once, with no walk
\* and no encoder process; and a forced run with a min_version that passes
\* the check takes every file found, without a call of _needs_reencoding,
\* whatever the target is.
C30_ForceDoesNotSkipTheCheck ==
    /\ (force /\ lib_path_ok /\ ~ flac_v.raised /\ flac_v.isver /\ BadMinVersion) =>
          /\ procs = <<>>
          /\ ~ walked
          /\ pc \in {"start", "done"}
          /\ pc = "done" => ret = 1
    /\ (force /\ walked /\ arg_min_version.given) =>
          /\ min_version = arg_min_version.version
          /\ flac_files = found
          /\ consulted = <<>>

(***************************************************************************)
(* The verbose flag.                                                       *)
(***************************************************************************)

\* The commands launched, in order, the failure list and the return value
\* of a run in state r.
Result(r) ==
    << [k \in 1..Len(r.procs) |-> r.procs[k].args], r.errors, r.ret >>

\* C23: take two runs over the same inputs that differ in verbose only and
\* that stand in the same state, verbose and the outputs given to the encoder
\* processes left out.  Whatever step one of them takes (a step of the
\* control thread, the end of a process with some exit status, the poll of a
\* process), the other one has a step that brings the two to the same state
\* again.  So two such runs in which the processes end alike and are polled
\* alike launch the same commands in the same order and end with the same
\* failure list and the same return value.
C23_VerboseIsInert ==
    tw_phase = "second" =>
        /\ verbose # tw_saved.verbose
        /\ Semantics(Snapshot) = Semantics(tw_saved)
        /\ ENABLED Mirror
        /\ Result(Snapshot) = Result(tw_saved)

\* A run with verbose set has recorded a failure, and its twin without
\* verbose is asked for the same step.
C23_Witness ==
    /\ tw_phase = "second"
    /\ ~ verbose
    /\ tw_target.verbose
    /\ Len(tw_target.errors) = 2
    /\ Len(tw_saved.errors) = 1
    /\ tw_target.procs[1].output # procs[1].output

=============================================================================
